---- MODULE Spec2Model ----
(***************************************************************************)
(* Model of the resumable transfer engine of download.mjs: downloadToFile, *)
(* the remote probe getRemoteSizeAndRanges it calls, the byte limiter of   *)
(* sample transfers, the two timers of an attempt, and the pure            *)
(* classification / backoff functions the attempt loop uses.               *)
(*                                                                         *)
(* Files are sequences of byte identities: byte i of the remote resource   *)
(* is the number i, a byte that does not come from the resource is 0.      *)
(* Time is counted in ticks; a timer holds the ticks left before it fires, *)
(* or Off when it is not armed.                                            *)
(***************************************************************************)
EXTENDS Integers, Sequences, FiniteSets, TLC

\* ------------------------------------------------------------------ bounds
RemoteSize == 3          \* bytes of the remote resource
MaxChunk == 2            \* largest chunk the body stream delivers at once
MaxRetriesBound == 2     \* largest maxRetries / retryAttempts tried
MaxTimeoutTicks == 2     \* requestTimeoutMs in ticks; readTimeoutMs is 1 .. this + 1
MaxSample == 2           \* largest sample byte cap tried
MaxUnits == 2           \* units of the catalog, at most
MaxLinks == 1           \* subtitle links, and attachment links, of a page, at most
MaxAttemptArg == 40     \* largest attempt number given to toBackoffMs
MaxStatusCode == 700
MaxCookieLines == 3      \* Set-Cookie lines a cookie store is given    \* largest status code given to isRetriableStatus

Off == 0 - 1
Undef == 0 - 1
NaN == 0 - 2            \* what parseInt returns for a text that is no number

Min(a, b) == IF a <= b THEN a ELSE b
Max(a, b) == IF a >= b THEN a ELSE b

\* 2 ** n.  The program computes it in a double, which holds every power the
\* retry loops can ask for; here it is held at 2^20 from n = 20 on, where its
\* product with 700 has long lost to 30000 in Math.min.
RECURSIVE Pow2(_)
Pow2(n) == IF n <= 0 THEN 1 ELSE IF n >= 20 THEN 1048576 ELSE 2 * Pow2(n - 1)

\* ------------------------------------------------- backoff & classification
toBackoffMs_NoCap(attempt) == 700 * Pow2(Max(0, attempt - 1))

toBackoffMs(attempt) == Min(30000, 700 * Pow2(Max(0, attempt - 1)))

isRetriableStatus_No425(status) ==
    status = 408 \/ status = 429 \/ (status >= 500 /\ status <= 599)

isRetriableStatus(status) ==
    status = 408 \/ status = 425 \/ status = 429 \/ (status >= 500 /\ status <= 599)

\* A message is a sequence of parts; a part is a literal text followed by a
\* decimal number (num = Undef: no number follows).
Part(text, num) == [text |-> text, num |-> num]

\* Literal texts of the program's messages that end with "HTTP " ...
TextsEndingWithHTTP == {" failed with HTTP "}
\* ... and those that contain "timeout" or "timed out" in lower case.
TextsWithTimeout == {"Connect Timeout Error", "Read timeout after ", "Request timeout after "}

messageIncludesTimeout(message) ==
    \E i \in 1..Len(message) : message[i].text \in TextsWithTimeout

explainHttpFailure(status, context) ==
    IF status = 401 THEN
        << Part("[AUTH_", 401), Part("] ", Undef), Part(context, Undef),
           Part(" failed with ", 401),
           Part(" Unauthorized. Your session/cookie is invalid or expired.", Undef) >>
    ELSE IF status = 403 THEN
        << Part("[ACCESS_", 403), Part("] ", Undef), Part(context, Undef),
           Part(" failed with ", 403),
           Part(" Forbidden. Your account does not have access to this course/content, or cookie was rejected.", Undef) >>
    ELSE IF status = 429 THEN
        << Part("[RATE_LIMIT_", 429), Part("] ", Undef), Part(context, Undef),
           Part(" failed with ", 429), Part(" Too Many Requests.", Undef) >>
    ELSE IF status >= 500 THEN
        << Part("[SERVER_", status), Part("] ", Undef), Part(context, Undef),
           Part(" failed with ", status), Part(". Temporary server-side issue.", Undef) >>
    ELSE
        << Part("[HTTP_", status), Part("] ", Undef), Part(context, Undef),
           Part(" failed with HTTP ", status), Part(".", Undef) >>

\* /HTTP (408|425|429|5\d\d)/.test(message), for status numbers of three digits
matchesRetriableHttp(message) ==
    \E i \in 1..Len(message) :
        /\ message[i].text \in TextsEndingWithHTTP
        /\ \/ message[i].num \in {408, 425, 429}
           \/ (message[i].num >= 500 /\ message[i].num <= 599)

\* An error object: its name, its message and the code of its cause.
Err(name, message, causeCode) == [name |-> name, message |-> message, cause |-> causeCode]
NoErr == Err("", << >>, "")

\* (variant: an abort is not recognised as a timeout)
isTimeoutError_MessageOnly(err) == messageIncludesTimeout(err.message)

isTimeoutError(err) ==
    err.name = "AbortError" \/ messageIncludesTimeout(err.message)

RetriableCodes ==
    {"ECONNRESET", "ECONNREFUSED", "ETIMEDOUT", "EPIPE", "ENOTFOUND", "EHOSTUNREACH", "EAI_AGAIN"}

isRetriableNetworkError(err) ==
    IF isTimeoutError(err) THEN TRUE ELSE err.cause \in RetriableCodes

\* The errors the model raises.
AbortError == Err("AbortError", << Part("This operation was aborted", Undef) >>, "")
FetchFailed(code) == Err("TypeError", << Part("fetch failed", Undef) >>, code)
Terminated(code) == Err("TypeError", << Part("terminated", Undef) >>, code)
HttpError(status) == Err("Error", explainHttpFailure(status, "Download"), "")
RangeRefused ==
    Err("Error", << Part("Server did not honor range; restarting from ", 0) >>, "")

\* cause codes the transport may report: one the list holds, one it does not
CauseCodes == {"ECONNRESET", "UND_ERR_SOCKET"}


\* ------------------------------------------------------------------- state
VARIABLES
    sampleBytes,        \* downloadToFile's sampleBytes argument
    maxRetries,         \* downloadToFile's maxRetries argument
    RUNTIME_CONFIG,     \* requestTimeoutMs and readTimeoutMs, in ticks
    remote,             \* the remote: whether it honours Range requests
    final0, tmp0,       \* the final and the temporary file when the call starts
    finalFile,          \* content of filePath (<< >>: absent or empty)
    tmpFile,            \* content of filePath + '.part'
    pc,                 \* position of the call
    attempt,            \* loop variable of the attempt loop
    existingFinalSize, existingTmpSize, remoteInfo, resumeOffset,
    request,            \* Range header of the body request in flight
    status,             \* status of the response being streamed
    body,               \* bytes of the response body not yet delivered
    downloadedBytes,    \* the counting transform's progress counter
    limiterSeen,        \* ByteLimit.seen
    byteLimitReached,
    toTimer,            \* the requestTimeoutMs timer `to` of the attempt
    readIdleTimer,      \* the idle-read watchdog
    sinceChunk,         \* ticks since the body stream last delivered a chunk
    sleepMs,            \* delay of the backoff sleep in progress
    result,             \* "none", "exists", "downloaded" or "threw"
    lastErr,            \* the error caught last by the attempt loop
    probeRet,           \* where getRemoteSizeAndRanges returns to
    \* history, read by the properties only
    reqLog,             \* the body requests issued, in order
    headProbes, getProbes,   \* probe requests issued
    headOk,             \* the HEAD probe answered 2xx
    backoffLog,         \* the backoff delays waited, in order
    lastAbort,          \* which timer aborted last, and in which phase
    finalizedBy,        \* how the final file was produced
    \* fetchWithRetry
    retries, timeoutMs, \* its retries and timeoutMs options
    fetchPc,            \* position of the call
    fetchAttempt,       \* its loop variable attempt
    fetchTimer,         \* fetchWithTimeout's timer t
    fetchSleepMs,       \* delay of the backoff sleep in progress
    fetchLastErr,       \* its variable lastErr
    fetchResult,        \* what the call returned or threw
    fetchRequests,      \* history: requests issued
    fetchLog,           \* history: the outcome of each attempt, in order
    fetchBackoffLog,    \* history: the backoff delays waited, in order
    \* prepareSession, loginWithCredentialsInline and the session gate of main
    COOKIE,             \* the override cookie of the config, or the placeholder
    storedSessionCookie,\* config.auth.sessionCookie when the run starts
    userEmail, userPassword, forceLogin,
    ACTIVE_COOKIE,      \* the active credential
    sessPc,             \* position of main / prepareSession / the handshake
    authCfg,            \* config.auth in memory: sessionCookie, sessionUpdated
    configFile,         \* the same two fields as the config file holds them
    prep,               \* what prepareSession returned
    coreData,           \* main's coreData
    store,              \* the handshake's SimpleCookieStore
    csrf,               \* the handshake's anti-forgery token
    loginErr,           \* kind of the error the handshake threw
    exitCode,           \* code of process.exit, Undef while running
    loginLog,           \* history: the handshake's requests, in order
    sessLog,            \* history: installs, probes, writes, catalog requests
    \* main from the catalog on: the dry-run preview and the download loop
    isDryRun,           \* the --dry-run flag
    units,              \* the catalog's units in order, each by its kind
    mainPc,             \* position of main in the course phase
    unitIndex,          \* the unit the loop is at (1-based)
    subtitleLinks,      \* subtitle links of the unit's page still to go
    attachmentLinks,    \* attachment links of the unit's page still to go
    counts,             \* totalUnits, downloadedCount, skippedCount,
                        \* failedCount, nonLectureUnits of the download loop
    dryCounts,          \* totalLectures, totalLocked, totalUnknownSize and the
                        \* current unit's unitUnknownCount
    inFlight,           \* the downloadToFile calls that have not settled
    returned,           \* what the awaited call settled with: status, sStatus,
                        \* aStatus or the error thrown, while in scope
    \* history, read by the properties only
    visited,            \* the units the loop has looked at
    warned,             \* the kinds of transfer whose failure logWarn reported
    dirs,               \* the directories created
    unitLog,            \* starts and ends of the transfers of the unit in hand
    mainRequests,       \* the requests of the course phase, with their cookie
    \* rawRequestWithRetry
    retryAttempts,      \* RUNTIME_CONFIG.retryAttempts
    rawPc,              \* position of the call
    rawAttempt,         \* its loop variable attempt
    rawSleepMs,         \* delay of the backoff sleep in progress
    rawLastErr,         \* its variable lastErr
    rawResult,          \* what the call returned or threw
    rawLog,             \* history: the outcome of each attempt, in order
    rawBackoffLog,      \* history: the backoff delays waited, in order
    \* a call of one of the pure functions
    fn,                 \* the function called
    arg,                \* its argument
    ret                 \* << >> before the call, then what it returned

downloadVars ==
        << sampleBytes, maxRetries, RUNTIME_CONFIG, remote, final0, tmp0,
           finalFile, tmpFile, pc, attempt, existingFinalSize, existingTmpSize,
           remoteInfo, resumeOffset, request, status, body, downloadedBytes,
           limiterSeen, byteLimitReached, toTimer, readIdleTimer, sinceChunk,
           sleepMs, result, lastErr, probeRet, reqLog, headProbes, getProbes, headOk,
           backoffLog, lastAbort, finalizedBy >>
fetchVars == << retries, timeoutMs, fetchPc, fetchAttempt, fetchTimer, fetchSleepMs,
                fetchLastErr, fetchResult, fetchRequests, fetchLog, fetchBackoffLog >>
sessionVars == << COOKIE, storedSessionCookie, userEmail, userPassword, forceLogin,
                  ACTIVE_COOKIE, sessPc, authCfg, configFile, prep, coreData, store,
                  csrf, loginErr, exitCode, loginLog, sessLog >>
mainVars == << isDryRun, units, mainPc, unitIndex, subtitleLinks, attachmentLinks,
               counts, dryCounts, inFlight, returned, visited, warned, dirs, unitLog,
               mainRequests >>
pureVars == << fn, arg, ret >>
rawVars == << retryAttempts, rawPc, rawAttempt, rawSleepMs, rawLastErr, rawResult, rawLog,
             rawBackoffLog >>
vars == << downloadVars, rawVars, fetchVars, sessionVars, mainVars, pureVars >>
\* the variables of the components a downloadToFile call does not run
elsewhere == << rawVars, fetchVars, sessionVars, mainVars, pureVars >>
\* ... that a fetchWithRetry call does not run, and that the session phase of
\* main does not run
outsideFetch == << downloadVars, rawVars, sessionVars, mainVars, pureVars >>
\* ... and that a rawRequestWithRetry call does not run
outsideRaw == << downloadVars, fetchVars, sessionVars, mainVars, pureVars >>
outsideSession == << downloadVars, rawVars, fetchVars, mainVars, pureVars >>
\* ... and that the course phase of main does not write
outsideCourse == << downloadVars, rawVars, fetchVars, sessionVars, pureVars >>

inputs == << sampleBytes, maxRetries, RUNTIME_CONFIG, remote, final0, tmp0 >>
files == << finalFile, tmpFile >>
locals == << existingFinalSize, existingTmpSize, remoteInfo, resumeOffset >>
stream == << request, status, body, downloadedBytes, limiterSeen, byteLimitReached >>
timers == << toTimer, readIdleTimer, sinceChunk >>
probes == << headProbes, getProbes, headOk >>

RemoteBytes == [i \in 1..RemoteSize |-> i]
\* A file of n bytes left by an earlier run.
Prior(n) == [i \in 1..n |-> IF i <= RemoteSize THEN i ELSE 0]

NoRange == [kind |-> "none", first |-> Undef, last |-> Undef]
RangeFrom(offset) == [kind |-> "from", first |-> offset, last |-> Undef]
RangeSample(cap) == [kind |-> "sample", first |-> 0, last |-> Max(0, cap - 1)]

NoInfo == [set |-> FALSE, size |-> Undef, acceptRanges |-> FALSE]
Info(size, acceptRanges) == [set |-> TRUE, size |-> size, acceptRanges |-> acceptRanges]
NoAbort == [by |-> "none", during |-> "none", attempt |-> 0, silentFor |-> 0]

NoResult == [kind |-> "none", status |-> 0, err |-> NoErr]

\* rawRequestWithRetry has not been called
RawIdle ==
    /\ retryAttempts = 1
    /\ rawPc = "idle"
    /\ rawAttempt = 0
    /\ rawSleepMs = 0
    /\ rawLastErr = NoErr
    /\ rawResult = NoResult
    /\ rawLog = << >>
    /\ rawBackoffLog = << >>

\* fetchWithRetry has not been called
FetchIdle ==
    /\ retries = 1
    /\ timeoutMs = 1
    /\ fetchPc = "idle"
    /\ fetchAttempt = 0
    /\ fetchTimer = Off
    /\ fetchSleepMs = 0
    /\ fetchLastErr = NoErr
    /\ fetchResult = NoResult
    /\ fetchRequests = 0
    /\ fetchLog = << >>
    /\ fetchBackoffLog = << >>

\* A cookie value: where it comes from and, for the pair the handshake
\* composes, its two parts.
Cookie(origin, csrftoken, sessionid) ==
    [origin |-> origin, csrftoken |-> csrftoken, sessionid |-> sessionid]
Null == Cookie("null", "", "")
Placeholder == Cookie("PUT_YOUR_COOKIE_HERE", "", "")
OverrideCookie == Cookie("config.auth.cookie", "", "")
StoredCookie == Cookie("config.auth.sessionCookie", "", "")

\* The body of a core-data response, and no body.
Core(isAuthenticated, cookie) ==
    [null |-> FALSE, is_authenticated |-> isAuthenticated, cookie |-> cookie]
NullCore == [null |-> TRUE, is_authenticated |-> FALSE, cookie |-> Null]

AuthCfg(cookie, updated) == [sessionCookie |-> cookie, sessionUpdated |-> updated]
NoPrep == [returned |-> FALSE, core |-> NullCore, source |-> ""]
EmptyStore == [csrftoken |-> "", sessionid |-> ""]

\* what main and prepareSession start from, the config apart
SessionEntry ==
    /\ ACTIVE_COOKIE = Null
    /\ sessPc = "step1"
    /\ authCfg = AuthCfg(storedSessionCookie, "earlier")
    /\ configFile = authCfg
    /\ prep = NoPrep
    /\ coreData = NullCore
    /\ store = EmptyStore
    /\ csrf = ""
    /\ loginErr = ""
    /\ exitCode = Undef
    /\ loginLog = << >>
    /\ sessLog = << >>

\* main is not run
SessionIdle ==
    /\ COOKIE = Placeholder
    /\ storedSessionCookie = Null
    /\ userEmail = ""
    /\ userPassword = ""
    /\ forceLogin = FALSE
    /\ SessionEntry

\* none of the pure functions is being called
PureIdle ==
    /\ fn = "none"
    /\ arg = 0
    /\ ret = << >>

\* A unit of the catalog, by what the loops of main test: type other than
\* 'lecture'; passed over without a count ("filtered": status falsy, or
\* excluded by --chapter or --lesson); locked; or a lecture the loop goes on
\* to fetch.  The chapters are flattened: a chapter not selected is a run of
\* "filtered" units.
UnitKinds == {"quiz", "filtered", "locked", "lecture"}
Catalogs == UNION {[1..n -> UnitKinds] : n \in 0..MaxUnits}

ZeroCounts == [totalUnits |-> 0, downloadedCount |-> 0, skippedCount |-> 0,
               failedCount |-> 0, nonLectureUnits |-> 0]
ZeroDryCounts == [totalLectures |-> 0, totalLocked |-> 0, totalUnknownSize |-> 0,
                  unitUnknownCount |-> 0]

\* main has not reached the course phase
MainEntry ==
    /\ mainPc = "start"
    /\ unitIndex = 0
    /\ subtitleLinks = 0
    /\ attachmentLinks = 0
    /\ counts = ZeroCounts
    /\ dryCounts = ZeroDryCounts
    /\ inFlight = {}
    /\ returned = "none"
    /\ visited = {}
    /\ warned = {}
    /\ dirs = {}
    /\ unitLog = << >>
    /\ mainRequests = {}

\* a run of one lecture, downloading
MainIdle ==
    /\ isDryRun = FALSE
    /\ units = << "lecture" >>
    /\ MainEntry

\* downloadToFile is entered: nothing has run yet
DownloadEntry ==
    /\ finalFile = final0
    /\ tmpFile = tmp0
    /\ pc = "entry"
    /\ attempt = 0
    /\ existingFinalSize = 0
    /\ existingTmpSize = 0
    /\ remoteInfo = NoInfo
    /\ resumeOffset = 0
    /\ request = NoRange
    /\ status = 0
    /\ body = << >>
    /\ downloadedBytes = 0
    /\ limiterSeen = 0
    /\ byteLimitReached = FALSE
    /\ toTimer = Off
    /\ readIdleTimer = Off
    /\ sinceChunk = 0
    /\ sleepMs = 0
    /\ result = "none"
    /\ lastErr = NoErr
    /\ probeRet = "none"
    /\ reqLog = << >>
    /\ headProbes = 0
    /\ getProbes = 0
    /\ headOk = FALSE
    /\ backoffLog = << >>
    /\ lastAbort = NoAbort
    /\ finalizedBy = "none"

Init ==
    /\ sampleBytes \in 0..MaxSample
    /\ maxRetries \in 1..MaxRetriesBound
    /\ RUNTIME_CONFIG \in [requestTimeoutMs : {MaxTimeoutTicks},
                          readTimeoutMs : 1..(MaxTimeoutTicks + 1)]
    /\ remote \in [honoursRange : BOOLEAN]
    /\ final0 \in {Prior(n) : n \in 0..(RemoteSize + 1)}
    /\ tmp0 \in {Prior(n) : n \in 0..RemoteSize}
    /\ DownloadEntry
    /\ FetchIdle
    /\ RawIdle
    /\ SessionIdle
    /\ MainIdle
    /\ PureIdle


\* ------------------------------------------------------------- the remote
\* Content-Length a 2xx HEAD response may carry: none, 0, or the size.
HeadSizes == {Undef, 0, RemoteSize}

\* Status and body a healthy remote answers a body request with.
ServerStatus(range) ==
    IF range.kind = "none" \/ ~remote.honoursRange THEN 200
    ELSE IF range.first >= RemoteSize THEN 416
    ELSE 206

ServerBody(range) ==
    IF range.kind = "none" \/ ~remote.honoursRange THEN RemoteBytes
    ELSE SubSeq(RemoteBytes, range.first + 1,
                IF range.last = Undef THEN RemoteSize ELSE Min(range.last + 1, RemoteSize))

\* Statuses a request may be answered with instead.
FailStatuses == {401, 404, 408, 425, 429, 503}

IsOk(st) == st >= 200 /\ st <= 299

\* JavaScript truthiness of a number that may be undefined.
Truthy(n) == n # Undef /\ n # NaN /\ n # 0

\* ------------------------------------------------- decisions of the engine
\* (variant: the existing file counts only when it is at least the cap long)
sampleAlreadyExists_AtLeastCap(finalSize, sample) == sample > 0 /\ finalSize >= sample

\* line 972: a sample download of a file that exists is already satisfied
sampleAlreadyExists(finalSize, sample) == finalSize > 0 /\ sample > 0

\* line 979: a full download of a file that exists probes the remote first
needsPreflightProbe(finalSize, sample) == sample = 0 /\ finalSize > 0

\* (variant: the final file must be strictly larger than the remote)
finalIsComplete_Strict(info, finalSize) == Truthy(info.size) /\ finalSize > info.size

\* line 981: the final file is complete
finalIsComplete(info, finalSize) == Truthy(info.size) /\ finalSize >= info.size

\* lines 1010-1014: the Range header of the body request
rangeHeader(sample, offset) ==
    IF sample > 0 THEN RangeSample(sample)
    ELSE IF offset > 0 THEN RangeFrom(offset)
    ELSE NoRange

\* line 1020: the remote did not honour the resume range
rangeNotHonoured(offset, st) == offset > 0 /\ st # 206

\* (variant: the write stream always truncates)
writeFlags_Truncate(sample, offset) == "w"

\* line 1029: flags of the write stream
writeFlags(sample, offset) == IF sample > 0 \/ offset = 0 THEN "w" ELSE "a"

\* (variant: the limiter passes the whole chunk on)
byteLimitPush_Whole(limit, seen, chunk) == IF limit > 0 /\ limit - seen <= 0 THEN << >> ELSE chunk

\* ByteLimit._transform: the part of the chunk the limiter pushes on
byteLimitPush(limit, seen, chunk) ==
    IF limit <= 0 THEN chunk
    ELSE IF limit - seen <= 0 THEN << >>
    ELSE IF Len(chunk) > limit - seen THEN SubSeq(chunk, 1, limit - seen)
    ELSE chunk

\* ByteLimit._transform: the limiter ends the stream with this chunk
byteLimitHit(limit, seen, chunk) ==
    limit > 0 /\ limit - seen > 0 /\ seen + Len(byteLimitPush(limit, seen, chunk)) >= limit

\* (variant: the rename does not wait for the pipeline)
renamesAfter_NoAwait(at) == at \in {"streaming", "drained", "capped"}

\* lines 1105-1136: the rename to the final path is reached only past the
\* awaited pipeline: after it resolved, or after it rejected with the cap fired
renamesAfter(at) == at \in {"drained", "capped"}

\* line 1140: the caught error is worth a retry
retryable(err) == isRetriableNetworkError(err) \/ matchesRetriableHttp(err.message)

retriesAfter_NoBudget(att, max, err) == retryable(err)

\* line 1141: the attempt loop goes on after the caught error
retriesAfter(att, max, err) == att < max /\ retryable(err)

\* lines 1137-1147: the catch block of the attempt loop. The iteration's own
\* variables (resumeOffset, the request, the response and its streams) end
\* with the iteration; st is the status of the response the error is about.
CatchBlock(err, st) ==
    /\ lastErr' = err
    /\ toTimer' = Off
    /\ readIdleTimer' = Off
    /\ sinceChunk' = 0
    /\ resumeOffset' = 0
    /\ request' = NoRange
    /\ body' = << >>
    /\ downloadedBytes' = 0
    /\ limiterSeen' = 0
    /\ byteLimitReached' = FALSE
    /\ IF retriesAfter(attempt, maxRetries, err)
       THEN /\ pc' = "sleep"
            /\ sleepMs' = toBackoffMs(attempt)
            /\ result' = result
            /\ status' = 0
       ELSE /\ pc' = "done"
            /\ result' = "threw"
            /\ sleepMs' = sleepMs
            /\ status' = st


\* ------------------------------------------------------------ downloadToFile
\* lines 970-984: the checks before the attempt loop
Enter ==
    /\ pc = "entry"
    /\ existingFinalSize' = Len(finalFile)
    /\ IF sampleAlreadyExists(Len(finalFile), sampleBytes)
       THEN /\ result' = "exists"
            /\ pc' = "done"
            /\ UNCHANGED << existingTmpSize, attempt, probeRet >>
       ELSE /\ existingTmpSize' = Len(tmpFile)
            /\ result' = result
            /\ IF needsPreflightProbe(Len(finalFile), sampleBytes)
               THEN /\ pc' = "probeHead"
                    /\ probeRet' = "preflight"
                    /\ attempt' = attempt
               ELSE /\ pc' = "attempt"
                    /\ attempt' = 1
                    /\ probeRet' = probeRet
    /\ UNCHANGED << elsewhere, inputs, files, remoteInfo, resumeOffset, stream, timers, sleepMs,
                    lastErr, reqLog, probes, backoffLog, lastAbort, finalizedBy >>

\* The caller's continuation when getRemoteSizeAndRanges returns info:
\* lines 980-984 before the loop, line 998 inside it.
ProbeReturn(info) ==
    /\ remoteInfo' = info
    /\ IF probeRet = "preflight"
       THEN IF finalIsComplete(info, existingFinalSize)
            THEN /\ result' = "exists"
                 /\ pc' = "done"
                 /\ attempt' = attempt
            ELSE /\ result' = result
                 /\ pc' = "attempt"
                 /\ attempt' = 1
       ELSE /\ result' = result
            /\ pc' = "attempt"
            /\ attempt' = attempt

\* getRemoteSizeAndRanges, lines 469-477: the HEAD probe (sent through
\* fetchWithRetry; ok: its final outcome is a 2xx response)
ProbeHead ==
    /\ pc = "probeHead"
    /\ headProbes' = headProbes + 1
    /\ \E ok \in BOOLEAN, size \in HeadSizes, acceptRanges \in BOOLEAN :
         /\ headOk' = ok
         /\ IF ok
            THEN ProbeReturn(Info(size, acceptRanges))
            ELSE /\ pc' = "probeGet"
                 /\ UNCHANGED << remoteInfo, result, attempt >>
    /\ UNCHANGED << elsewhere, inputs, files, existingFinalSize, existingTmpSize, resumeOffset,
                    stream, timers, sleepMs, lastErr, probeRet, reqLog, getProbes,
                    backoffLog, lastAbort, finalizedBy >>

\* getRemoteSizeAndRanges, lines 478-490: the single-byte ranged GET
ProbeGet ==
    /\ pc = "probeGet"
    /\ getProbes' = getProbes + 1
    /\ \E answered \in BOOLEAN :
         IF answered /\ remote.honoursRange
         THEN ProbeReturn(Info(RemoteSize, TRUE))        \* 206, Content-Range .../size
         ELSE ProbeReturn(Info(Undef, FALSE))
    /\ UNCHANGED << elsewhere, inputs, files, existingFinalSize, existingTmpSize, resumeOffset,
                    stream, timers, sleepMs, lastErr, probeRet, reqLog, headProbes,
                    headOk, backoffLog, lastAbort, finalizedBy >>

resumesFromFinal_IgnoresRanges(sample, tmpSize, finalSize, info) ==
    sample = 0 /\ tmpSize = 0 /\ finalSize > 0

\* lines 990-1002: the final file is moved to the temporary path and resumed
\* from only in a full download, without a temporary file, and when the
\* remote advertises range support
resumesFromFinal(sample, tmpSize, finalSize, info) ==
    sample = 0 /\ tmpSize = 0 /\ finalSize > 0 /\ info.acceptRanges

\* lines 986-1018: an iteration of the attempt loop up to the body request
AttemptStart ==
    /\ pc = "attempt"
    /\ attempt <= maxRetries
    /\ IF sampleBytes = 0 /\ existingTmpSize = 0 /\ existingFinalSize > 0 /\ ~remoteInfo.set
       THEN /\ pc' = "probeHead"
            /\ probeRet' = "attempt"
            /\ UNCHANGED << files, locals, request, toTimer, reqLog >>
       ELSE /\ probeRet' = probeRet
            /\ remoteInfo' = remoteInfo
            /\ \E renameOk \in BOOLEAN :
                 IF /\ resumesFromFinal(sampleBytes, existingTmpSize,
                                         existingFinalSize, remoteInfo)
                    /\ renameOk
                 THEN \* move the final file to the temporary path and resume from it
                      /\ tmpFile' = finalFile
                      /\ finalFile' = << >>
                      /\ existingTmpSize' = existingFinalSize
                      /\ resumeOffset' = existingFinalSize
                      /\ existingFinalSize' = 0
                 ELSE /\ UNCHANGED << files, existingFinalSize, existingTmpSize >>
                      /\ resumeOffset' = IF sampleBytes = 0 /\ existingTmpSize > 0
                                         THEN existingTmpSize ELSE 0
            /\ request' = rangeHeader(sampleBytes, resumeOffset')
            /\ toTimer' = RUNTIME_CONFIG.requestTimeoutMs
            /\ reqLog' = Append(reqLog, [attempt |-> attempt, range |-> request',
                                         offset |-> resumeOffset',
                                         tmpSize |-> Len(tmpFile')])
            /\ pc' = "fetch"
    /\ UNCHANGED << elsewhere, inputs, attempt, status, body, downloadedBytes, limiterSeen,
                    byteLimitReached, readIdleTimer, sinceChunk, sleepMs, result,
                    lastErr, probes,
                    backoffLog, lastAbort, finalizedBy >>

\* lines 1018-1051: the response headers arrive
HeadersArrive ==
    /\ pc = "fetch"
    /\ \E st \in {ServerStatus(request)} \cup FailStatuses :
         /\ IF ~IsOk(st)
            THEN /\ CatchBlock(HttpError(st), st)
                 /\ UNCHANGED << files, existingFinalSize, existingTmpSize, remoteInfo >>
            ELSE IF rangeNotHonoured(resumeOffset, st)
            THEN /\ tmpFile' = << >>
                 /\ existingTmpSize' = 0
                 /\ CatchBlock(RangeRefused, st)
                 /\ UNCHANGED << finalFile, existingFinalSize, remoteInfo >>
            ELSE /\ status' = st
                 /\ tmpFile' = IF writeFlags(sampleBytes, resumeOffset) = "w"
                               THEN << >> ELSE tmpFile
                 /\ readIdleTimer' = RUNTIME_CONFIG.readTimeoutMs
                 /\ sinceChunk' = 0
                 /\ body' = ServerBody(request)
                 /\ downloadedBytes' = resumeOffset
                 /\ limiterSeen' = 0
                 /\ byteLimitReached' = FALSE
                 /\ pc' = "streaming"
                 /\ UNCHANGED << finalFile, locals, request, toTimer, sleepMs, result,
                                 lastErr >>
    /\ UNCHANGED << elsewhere, inputs, attempt, probeRet, reqLog, probes, backoffLog,
                    lastAbort, finalizedBy >>

\* line 1018: fetch rejects with a transport error
FetchThrows ==
    /\ pc = "fetch"
    /\ \E code \in CauseCodes : CatchBlock(FetchFailed(code), 0)
    /\ UNCHANGED << elsewhere, inputs, files, attempt, existingFinalSize, existingTmpSize,
                    remoteInfo, probeRet, reqLog, probes,
                    backoffLog, lastAbort, finalizedBy >>

\* a tick of time passes while the attempt waits for the network
Tick ==
    /\ pc \in {"fetch", "streaming"}
    /\ toTimer # 0
    /\ readIdleTimer # 0
    /\ toTimer' = IF toTimer = Off THEN Off ELSE toTimer - 1
    /\ readIdleTimer' = IF readIdleTimer = Off THEN Off ELSE readIdleTimer - 1
    /\ sinceChunk' = IF pc = "streaming" THEN sinceChunk + 1 ELSE sinceChunk
    /\ UNCHANGED << elsewhere, inputs, files, pc, attempt, locals, stream, sleepMs, result, lastErr,
                    probeRet, reqLog, probes, backoffLog, lastAbort, finalizedBy >>

\* line 1017: the timer `to` fires and aborts the controller of the attempt
RequestTimerFires ==
    /\ pc \in {"fetch", "streaming"}
    /\ toTimer = 0
    /\ lastAbort' = [by |-> "requestTimeout",
                     during |-> IF pc = "fetch" THEN "headers" ELSE "body",
                     attempt |-> attempt, silentFor |-> sinceChunk]
    /\ CatchBlock(AbortError, status)
    /\ UNCHANGED << elsewhere, inputs, files, attempt, existingFinalSize, existingTmpSize,
                    remoteInfo, probeRet, reqLog, probes,
                    backoffLog, finalizedBy >>

\* lines 1034-1036: the idle-read watchdog fires and aborts the controller
IdleTimerFires ==
    /\ pc = "streaming"
    /\ readIdleTimer = 0
    /\ lastAbort' = [by |-> "readIdle", during |-> "body", attempt |-> attempt,
                     silentFor |-> sinceChunk]
    /\ CatchBlock(AbortError, status)
    /\ UNCHANGED << elsewhere, inputs, files, attempt, existingFinalSize, existingTmpSize,
                    remoteInfo, probeRet, reqLog, probes,
                    backoffLog, finalizedBy >>

\* lines 1088-1108 and ByteLimit._transform: a chunk passes the pipeline
Chunk ==
    /\ pc = "streaming"
    /\ body # << >>
    /\ \E n \in 1..Min(MaxChunk, Len(body)) :
         LET chunk == SubSeq(body, 1, n)
             out == IF sampleBytes > 0
                    THEN byteLimitPush(sampleBytes, limiterSeen, chunk) ELSE chunk
             hit == sampleBytes > 0 /\ byteLimitHit(sampleBytes, limiterSeen, chunk)
         IN /\ body' = SubSeq(body, n + 1, Len(body))
            /\ downloadedBytes' = downloadedBytes + n
            /\ tmpFile' = tmpFile \o out
            /\ limiterSeen' = IF sampleBytes > 0 THEN limiterSeen + Len(out) ELSE limiterSeen
            /\ byteLimitReached' = hit
            /\ sinceChunk' = 0
            /\ IF hit
               THEN /\ pc' = "capped"
                    /\ toTimer' = Off
                    /\ readIdleTimer' = Off
               ELSE /\ pc' = pc
                    /\ toTimer' = toTimer
                    /\ readIdleTimer' = RUNTIME_CONFIG.readTimeoutMs
    /\ UNCHANGED << elsewhere, inputs, finalFile, attempt, locals, request, status, sleepMs, result,
                    lastErr, probeRet, reqLog, probes, backoffLog, lastAbort, finalizedBy >>

\* lines 1105-1107, 1122-1125: the body ends and the pipeline resolves
StreamEnd ==
    /\ pc = "streaming"
    /\ body = << >>
    /\ pc' = "drained"
    /\ toTimer' = Off
    /\ readIdleTimer' = Off
    /\ sinceChunk' = 0
    /\ UNCHANGED << elsewhere, inputs, files, attempt, locals, stream, sleepMs, result, lastErr,
                    probeRet, reqLog, probes, backoffLog, lastAbort, finalizedBy >>

\* lines 1109-1121: the pipeline rejects with a transport error
StreamError ==
    /\ pc = "streaming"
    /\ \E code \in CauseCodes : CatchBlock(Terminated(code), status)
    /\ UNCHANGED << elsewhere, inputs, files, attempt, existingFinalSize, existingTmpSize,
                    remoteInfo, probeRet, reqLog, probes,
                    backoffLog, lastAbort, finalizedBy >>

\* lines 1110-1120 (byte cap fired) and 1127-1136 (pipeline drained):
\* the temporary file becomes the final file
Finalize ==
    /\ renamesAfter(pc)
    /\ \E renameOk \in BOOLEAN :
         finalizedBy' = IF renameOk THEN "rename" ELSE "copy"
    /\ finalFile' = tmpFile
    /\ tmpFile' = << >>
    /\ result' = "downloaded"
    /\ pc' = "done"
    /\ UNCHANGED << elsewhere, inputs, attempt, locals, stream, timers, sleepMs, lastErr, probeRet,
                    reqLog, probes, backoffLog, lastAbort >>

\* lines 1143-1144: the backoff sleep ends and the loop continues
Wake ==
    /\ pc = "sleep"
    /\ backoffLog' = Append(backoffLog, sleepMs)
    /\ attempt' = attempt + 1
    /\ pc' = "attempt"
    /\ lastErr' = NoErr
    /\ lastAbort' = NoAbort
    /\ sleepMs' = 0
    /\ UNCHANGED << elsewhere, inputs, files, locals, stream, timers, result, probeRet, reqLog,
                    probes, finalizedBy >>

Next ==
    \/ Enter
    \/ ProbeHead
    \/ ProbeGet
    \/ AttemptStart
    \/ HeadersArrive
    \/ FetchThrows
    \/ Tick
    \/ RequestTimerFires
    \/ IdleTimerFires
    \/ Chunk
    \/ StreamEnd
    \/ StreamError
    \/ Finalize
    \/ Wake

Spec == Init /\ [][Next]_vars


\* ------------------------------------------------------------ fetchWithRetry
\* statuses a response may carry: success, client errors, retriable ones
FetchStatuses == {200, 401, 403, 404, 408, 429, 503}
\* errors fetch may reject with
FetchErrors == {FetchFailed(code) : code \in CauseCodes}

Response(st) == [kind |-> "response", status |-> st, err |-> NoErr]
Thrown(err) == [kind |-> "threw", status |-> 0, err |-> err]
Outcome(kind, st, err) == [kind |-> kind, status |-> st, err |-> err]

\* downloadToFile is not called: its arguments are fixed and nothing runs
DownloadIdle ==
    /\ sampleBytes = 0
    /\ maxRetries = 1
    /\ RUNTIME_CONFIG = [requestTimeoutMs |-> 1, readTimeoutMs |-> 1]
    /\ remote = [honoursRange |-> TRUE]
    /\ final0 = << >>
    /\ tmp0 = << >>
    /\ DownloadEntry

FetchInit ==
    /\ DownloadIdle
    /\ SessionIdle
    /\ MainIdle
    /\ PureIdle
    /\ RawIdle
    /\ retries \in 1..MaxRetriesBound
    /\ timeoutMs \in 1..MaxTimeoutTicks
    /\ fetchPc = "idle"
    /\ fetchAttempt = 0
    /\ fetchTimer = Off
    /\ fetchSleepMs = 0
    /\ fetchLastErr = NoErr
    /\ fetchResult = NoResult
    /\ fetchRequests = 0
    /\ fetchLog = << >>
    /\ fetchBackoffLog = << >>

retriesOnStatus_NoBudget(st, att, R) == isRetriableStatus(st)

retriesOnStatus_ServerErrorsOnly(st, att, R) == st >= 500 /\ st <= 599 /\ att < R

\* line 445: the response is dropped and the loop goes on
retriesOnStatus(st, att, R) == isRetriableStatus(st) /\ att < R

retriesOnError_ByCodeOnly(err, att, R) == att < R /\ err.cause \in RetriableCodes

\* line 453: the caught error is dropped and the loop goes on
retriesOnError(err, att, R) == att < R /\ isRetriableNetworkError(err)

\* lines 451-458: the catch block of the loop; kind tells a rejected fetch
\* from one the timer aborted
FetchCatch(kind, err) ==
    /\ fetchLastErr' = err
    /\ fetchTimer' = Off
    /\ fetchLog' = Append(fetchLog, Outcome(kind, 0, err))
    /\ IF retriesOnError(err, fetchAttempt, retries)
       THEN /\ fetchPc' = "sleep"
            /\ fetchSleepMs' = toBackoffMs(fetchAttempt)
            /\ fetchResult' = fetchResult
       ELSE /\ fetchPc' = "threw"
            /\ fetchResult' = Thrown(err)
            /\ fetchSleepMs' = fetchSleepMs
    /\ UNCHANGED << outsideFetch, retries, timeoutMs, fetchAttempt, fetchRequests,
                    fetchBackoffLog >>

\* lines 441-442: the call starts its loop
FetchEnter ==
    /\ fetchPc = "idle"
    /\ fetchPc' = "loop"
    /\ fetchAttempt' = 1
    /\ fetchLastErr' = NoErr
    /\ UNCHANGED << outsideFetch, retries, timeoutMs, fetchTimer, fetchSleepMs,
                    fetchResult, fetchRequests, fetchLog, fetchBackoffLog >>

\* lines 442-444 and 429-432: the loop test, then fetchWithTimeout arms its
\* timer and issues the request; line 461 when the loop is left
FetchIssue ==
    /\ fetchPc = "loop"
    /\ IF fetchAttempt <= retries
       THEN /\ fetchTimer' = timeoutMs
            /\ fetchRequests' = fetchRequests + 1
            /\ fetchPc' = "inflight"
            /\ fetchResult' = fetchResult
       ELSE /\ fetchPc' = "threw"
            /\ fetchResult' = Thrown(fetchLastErr)
            /\ UNCHANGED << fetchTimer, fetchRequests >>
    /\ UNCHANGED << outsideFetch, retries, timeoutMs, fetchAttempt, fetchSleepMs,
                    fetchLastErr, fetchLog, fetchBackoffLog >>

\* a tick of time passes while the request is in flight
FetchTick ==
    /\ fetchPc = "inflight"
    /\ fetchTimer > 0
    /\ fetchTimer' = fetchTimer - 1
    /\ UNCHANGED << outsideFetch, retries, timeoutMs, fetchPc, fetchAttempt,
                    fetchSleepMs, fetchLastErr, fetchResult, fetchRequests, fetchLog,
                    fetchBackoffLog >>

\* lines 433-436 and 445-450: fetch resolves with a response
FetchResponds ==
    /\ fetchPc = "inflight"
    /\ \E st \in FetchStatuses :
         /\ fetchLog' = Append(fetchLog, Outcome("status", st, NoErr))
         /\ IF retriesOnStatus(st, fetchAttempt, retries)
            THEN /\ fetchPc' = "sleep"
                 /\ fetchSleepMs' = toBackoffMs(fetchAttempt)
                 /\ fetchResult' = fetchResult
            ELSE /\ fetchPc' = "returned"
                 /\ fetchResult' = Response(st)
                 /\ fetchSleepMs' = fetchSleepMs
    /\ fetchTimer' = Off
    /\ UNCHANGED << outsideFetch, retries, timeoutMs, fetchAttempt, fetchLastErr,
                    fetchRequests, fetchBackoffLog >>

\* line 433: fetch rejects with a transport error
FetchRejects ==
    /\ fetchPc = "inflight"
    /\ \E err \in FetchErrors : FetchCatch("error", err)

\* line 431: the timer fires and aborts the controller; fetch rejects with
\* an AbortError
FetchTimerFires ==
    /\ fetchPc = "inflight"
    /\ fetchTimer = 0
    /\ FetchCatch("timeout", AbortError)

\* lines 447-448 and 455-456: the backoff sleep ends and the loop continues
FetchWake ==
    /\ fetchPc = "sleep"
    /\ fetchBackoffLog' = Append(fetchBackoffLog, fetchSleepMs)
    /\ fetchAttempt' = fetchAttempt + 1
    /\ fetchPc' = "loop"
    /\ fetchSleepMs' = 0
    /\ UNCHANGED << outsideFetch, retries, timeoutMs, fetchTimer, fetchLastErr,
                    fetchResult, fetchRequests, fetchLog >>

FetchNext ==
    \/ FetchEnter
    \/ FetchIssue
    \/ FetchTick
    \/ FetchResponds
    \/ FetchRejects
    \/ FetchTimerFires
    \/ FetchWake

SpecFetch == FetchInit /\ [][FetchNext]_vars


\* ------------------------------------------------------ rawRequestWithRetry
\* An error of the https transport (a system error of node): the code is a
\* property of the error itself, there is no cause.
SystemCodes ==
    {"ECONNRESET", "ECONNREFUSED", "EPIPE", "ENOTFOUND", "EHOSTUNREACH",
     "CERT_HAS_EXPIRED"}
SystemError(code) ==
    [name |-> "Error", message |-> << Part("request failed: ", Undef), Part(code, Undef) >>,
     cause |-> "", code |-> code]
\* lines 654 and 665: the errors the two timeouts of rawRequest destroy the
\* request with
ReadTimeout ==
    Err("Error", << Part("Read timeout after ", 120000), Part("ms", Undef) >>, "")
RequestTimeout ==
    Err("Error", << Part("Request timeout after ", 30000), Part("ms", Undef) >>, "")

\* what a rawRequest may settle with: a response with any status (line 657),
\* or a rejection (line 666)
RawOutcomes ==
    {Outcome("status", st, NoErr) : st \in FetchStatuses}
        \cup {Outcome("error", 0, SystemError(code)) : code \in SystemCodes}
        \cup {Outcome("error", 0, ReadTimeout), Outcome("error", 0, RequestTimeout)}

RawInit ==
    /\ DownloadIdle
    /\ FetchIdle
    /\ SessionIdle
    /\ MainIdle
    /\ PureIdle
    /\ retryAttempts \in 1..MaxRetriesBound
    /\ rawPc = "idle"
    /\ rawAttempt = 0
    /\ rawSleepMs = 0
    /\ rawLastErr = NoErr
    /\ rawResult = NoResult
    /\ rawLog = << >>
    /\ rawBackoffLog = << >>

rawRetriesOnStatus_UntilLast(st, att, R) == isRetriableStatus(st) /\ att + 1 < R

\* line 677: the response is dropped and the loop goes on
rawRetriesOnStatus(st, att, R) == isRetriableStatus(st) /\ att < R

rawRetriesOnError_OwnCode(err, att, R) ==
    att < R /\ (isRetriableNetworkError(err)
                \/ ("code" \in DOMAIN err /\ err.code \in RetriableCodes))

\* line 684: the caught error is dropped and the loop goes on
rawRetriesOnError(err, att, R) == att < R /\ isRetriableNetworkError(err)

\* lines 673-674: the call starts its loop
RawEnter ==
    /\ rawPc = "idle"
    /\ rawPc' = "loop"
    /\ rawAttempt' = 1
    /\ rawLastErr' = NoErr
    /\ UNCHANGED << outsideRaw, retryAttempts, rawSleepMs, rawResult, rawLog,
                    rawBackoffLog >>

\* lines 674-676: the loop test, then the request is issued; line 693 when
\* the loop is left
RawIssue ==
    /\ rawPc = "loop"
    /\ IF rawAttempt <= retryAttempts
       THEN /\ rawPc' = "inflight"
            /\ rawResult' = rawResult
       ELSE /\ rawPc' = "threw"
            /\ rawResult' = Thrown(rawLastErr)
    /\ UNCHANGED << outsideRaw, retryAttempts, rawAttempt, rawSleepMs, rawLastErr,
                    rawLog, rawBackoffLog >>

\* lines 676-691: rawRequest settles with one of the outcomes: a response is
\* retried or returned, an error is caught and retried or rethrown
RawSettles(outcomes) ==
    /\ rawPc = "inflight"
    /\ \E o \in outcomes :
         /\ rawLog' = Append(rawLog, o)
         /\ IF o.kind = "status"
            THEN /\ rawLastErr' = rawLastErr
                 /\ IF rawRetriesOnStatus(o.status, rawAttempt, retryAttempts)
                    THEN /\ rawPc' = "sleep"
                         /\ rawSleepMs' = toBackoffMs(rawAttempt)
                         /\ rawResult' = rawResult
                    ELSE /\ rawPc' = "returned"
                         /\ rawResult' = Response(o.status)
                         /\ rawSleepMs' = rawSleepMs
            ELSE /\ rawLastErr' = o.err
                 /\ IF rawRetriesOnError(o.err, rawAttempt, retryAttempts)
                    THEN /\ rawPc' = "sleep"
                         /\ rawSleepMs' = toBackoffMs(rawAttempt)
                         /\ rawResult' = rawResult
                    ELSE /\ rawPc' = "threw"
                         /\ rawResult' = Thrown(o.err)
                         /\ rawSleepMs' = rawSleepMs
    /\ UNCHANGED << outsideRaw, retryAttempts, rawAttempt, rawBackoffLog >>

\* lines 676-691 with any outcome of the request
RawRequestSettles ==
    /\ rawPc = "inflight"
    /\ RawSettles(RawOutcomes)

\* lines 679-680 and 686-687: the backoff sleep ends and the loop continues
RawWake ==
    /\ rawPc = "sleep"
    /\ rawBackoffLog' = Append(rawBackoffLog, rawSleepMs)
    /\ rawAttempt' = rawAttempt + 1
    /\ rawPc' = "loop"
    /\ rawSleepMs' = 0
    /\ UNCHANGED << outsideRaw, retryAttempts, rawLastErr, rawResult, rawLog >>

RawNext ==
    \/ RawEnter
    \/ RawIssue
    \/ RawRequestSettles
    \/ RawWake

SpecRaw == RawInit /\ [][RawNext]_vars

\* ---- the two retry loops side by side: a fetchWithRetry call with
\* retries = RUNTIME_CONFIG.retryAttempts, then a rawRequestWithRetry call
\* whose request meets, attempt by attempt, an outcome of the same kind
\* The kind of an attempt's outcome, by the tests of lines 445/677 and 453/684
OutcomeKind(o) ==
    IF o.kind = "status"
    THEN IF isRetriableStatus(o.status) THEN "retriable status" ELSE "other status"
    ELSE IF isRetriableNetworkError(o.err) THEN "retriable error" ELSE "other error"

SameKindOutcomes ==
    IF rawAttempt \in 1..Len(fetchLog)
    THEN {o \in RawOutcomes : OutcomeKind(o) = OutcomeKind(fetchLog[rawAttempt])}
    ELSE {}

RetryInit ==
    /\ DownloadIdle
    /\ SessionIdle
    /\ MainIdle
    /\ PureIdle
    /\ retries \in 1..MaxRetriesBound
    /\ retryAttempts = retries
    /\ timeoutMs \in 1..MaxTimeoutTicks
    /\ fetchPc = "idle"
    /\ fetchAttempt = 0
    /\ fetchTimer = Off
    /\ fetchSleepMs = 0
    /\ fetchLastErr = NoErr
    /\ fetchResult = NoResult
    /\ fetchRequests = 0
    /\ fetchLog = << >>
    /\ fetchBackoffLog = << >>
    /\ rawPc = "idle"
    /\ rawAttempt = 0
    /\ rawSleepMs = 0
    /\ rawLastErr = NoErr
    /\ rawResult = NoResult
    /\ rawLog = << >>
    /\ rawBackoffLog = << >>

\* the second call starts when the first has ended
FollowEnter ==
    /\ fetchPc \in {"returned", "threw"}
    /\ RawEnter

\* its request settles with an outcome of the kind the first call met at
\* the same attempt
FollowSettles ==
    /\ rawPc = "inflight"
    /\ RawSettles(SameKindOutcomes)

RetryNext ==
    \/ FetchNext
    \/ FollowEnter
    \/ RawIssue
    \/ FollowSettles
    \/ RawWake

SpecRetry == RetryInit /\ [][RetryNext]_vars


\* ------------------------------------------- prepareSession and main's gate
\* A probe is fetchCoreData seen from its caller: the core-data body says
\* authenticated, or says not authenticated, or the call throws (a status
\* that is not ok, a transport error after the retries, a body that is not
\* JSON).
ProbeOutcomes == {"authenticated", "anonymous", "failed"}

Install(source, cookie) ==
    [ev |-> "install", source |-> source, cookie |-> cookie, outcome |-> ""]
Probe(source, cookie, outcome) ==
    [ev |-> "probe", source |-> source, cookie |-> cookie, outcome |-> outcome]
Written(cookie, ok) ==
    [ev |-> "write", source |-> "fresh-login", cookie |-> cookie,
     outcome |-> IF ok THEN "saved" ELSE "failed"]
CatalogRequest == [ev |-> "catalog", source |-> "main", cookie |-> Null, outcome |-> ""]

SessionInit ==
    /\ DownloadIdle
    /\ FetchIdle
    /\ RawIdle
    /\ MainIdle
    /\ PureIdle
    /\ COOKIE \in {Placeholder, OverrideCookie}
    /\ storedSessionCookie \in {Null, StoredCookie}
    /\ userEmail \in {"", "user@example.org"}
    /\ userPassword \in {"", "secret"}
    /\ forceLogin \in BOOLEAN
    /\ SessionEntry

sentCookie_ConfigOnly(active, cookie) == cookie

\* line 223: the cookie commonHeaders sends
sentCookie(active, cookie) == IF active # Null THEN active ELSE cookie

\* line 878: an override cookie is configured
hasOverride(cookie) == cookie # Null /\ cookie # Placeholder

verifyAccepts_AnyBody(outcome) == outcome # "failed"

\* lines 862-866: verify returns the core (not null)
verifyAccepts(outcome) == outcome = "authenticated"

usesStoredSession_IgnoresForce(stored, force) == stored # Null

\* line 889: the stored session is tried
usesStoredSession(stored, force) == stored # Null /\ ~force

\* line 899: the login handshake is tried
attemptsLogin(email, password, active, force) ==
    email # "" /\ password # "" /\ (active = Null \/ force)

\* lines 251-252: ensureCookiePresent finds no cookie at all
cookieMissing(active, cookie) ==
    ~(active # Null /\ active # Placeholder) /\ ~(cookie # Null /\ cookie # Placeholder)

profileOk_AnyCore(core) == ~core.null

\* lines 510, 520: printProfileSummary returns isAuthenticated
profileOk(core) == core.is_authenticated

\* lines 856-873: verify() for the source tried at this position; next is
\* where prepareSession goes on when verify returns null, and drop tells
\* whether it sets ACTIVE_COOKIE to null then
VerifyAt(at, source, next, drop) ==
    /\ sessPc = at
    /\ IF ACTIVE_COOKIE = Null
       THEN /\ sessPc' = next
            /\ UNCHANGED << ACTIVE_COOKIE, prep, sessLog >>
       ELSE \E outcome \in ProbeOutcomes :
            /\ sessLog' = Append(sessLog, Probe(source, sentCookie(ACTIVE_COOKIE, COOKIE),
                                                outcome))
            /\ IF verifyAccepts(outcome)
               THEN /\ prep' = [returned |-> TRUE,
                                core |-> Core(TRUE, sentCookie(ACTIVE_COOKIE, COOKIE)),
                                source |-> source]
                    /\ sessPc' = "returned"
                    /\ ACTIVE_COOKIE' = ACTIVE_COOKIE
               ELSE /\ prep' = prep
                    /\ sessPc' = next
                    /\ ACTIVE_COOKIE' = IF drop THEN Null ELSE ACTIVE_COOKIE
    /\ UNCHANGED << outsideSession, COOKIE, storedSessionCookie, userEmail,
                    userPassword, forceLogin, authCfg, configFile, coreData, store,
                    csrf, loginErr, exitCode, loginLog >>

\* lines 878-880: step 1, the override cookie becomes the active credential
UseConfigCookie ==
    /\ sessPc = "step1"
    /\ IF hasOverride(COOKIE)
       THEN /\ ACTIVE_COOKIE' = COOKIE
            /\ sessLog' = Append(sessLog, Install("config-cookie", COOKIE))
            /\ sessPc' = "verify1"
       ELSE /\ sessPc' = "step2"
            /\ UNCHANGED << ACTIVE_COOKIE, sessLog >>
    /\ UNCHANGED << outsideSession, COOKIE, storedSessionCookie, userEmail,
                    userPassword, forceLogin, authCfg, configFile, prep, coreData,
                    store, csrf, loginErr, exitCode, loginLog >>

\* lines 881-886: the override cookie is verified; a failure leaves it active
VerifyConfigCookie ==
    /\ sessPc = "verify1"
    /\ VerifyAt("verify1", "config-cookie", "step2", FALSE)

\* lines 889-891: step 2, the stored session becomes the active credential
UseStoredSession ==
    /\ sessPc = "step2"
    /\ IF usesStoredSession(storedSessionCookie, forceLogin)
       THEN /\ ACTIVE_COOKIE' = storedSessionCookie
            /\ sessLog' = Append(sessLog, Install("config-session", storedSessionCookie))
            /\ sessPc' = "verify2"
       ELSE /\ sessPc' = "step3"
            /\ UNCHANGED << ACTIVE_COOKIE, sessLog >>
    /\ UNCHANGED << outsideSession, COOKIE, storedSessionCookie, userEmail,
                    userPassword, forceLogin, authCfg, configFile, prep, coreData,
                    store, csrf, loginErr, exitCode, loginLog >>

\* lines 892-895: the stored session is verified; a failure sets ACTIVE_COOKIE
\* to null
VerifyStoredSession ==
    /\ sessPc = "verify2"
    /\ VerifyAt("verify2", "config-session", "step3", TRUE)

\* lines 899-902 and 704: step 3, the handshake starts with an empty store
StartLogin ==
    /\ sessPc = "step3"
    /\ IF attemptsLogin(userEmail, userPassword, ACTIVE_COOKIE, forceLogin)
       THEN /\ sessPc' = "loginPage"
            /\ store' = EmptyStore
            /\ csrf' = ""
       ELSE /\ sessPc' = "step4"
            /\ UNCHANGED << store, csrf >>
    /\ UNCHANGED << outsideSession, COOKIE, storedSessionCookie, userEmail,
                    userPassword, forceLogin, ACTIVE_COOKIE, authCfg, configFile, prep,
                    coreData, loginErr, exitCode, loginLog, sessLog >>

LoginFails_StartsOver(kind) ==
    /\ loginErr' = kind
    /\ sessPc' = "loginPage"

\* lines 916-918: the handshake threw; prepareSession catches and goes on
LoginFails(kind) ==
    /\ loginErr' = kind
    /\ sessPc' = "step4"

\* What the handshake sends: the step, the token in X-CSRFToken and
\* csrfmiddlewaretoken, the csrftoken of the Cookie header, whether the form
\* holds the password; and the reply it got.
LoginRequest(step, token, cookieToken, password, reply) ==
    [step |-> step, token |-> token, cookie |-> cookieToken, password |-> password,
     reply |-> reply]

\* What rawRequestWithRetry gives back: it throws, or a response with its
\* status, the cookies it sets ("": none), and its body: JSON or not, the
\* fields status and message, and auth.csrf of a core-data body.
Reply(threw, st, setCsrf, setSid, json, jstatus, message, bodyCsrf) ==
    [threw |-> threw, status |-> st, setCsrf |-> setCsrf, setSid |-> setSid,
     json |-> json, jstatus |-> jstatus, message |-> message, bodyCsrf |-> bodyCsrf]
RequestThrew == Reply(TRUE, 0, "", "", FALSE, "", "", "")

PageReplies ==
    {RequestThrew} \cup
    {Reply(FALSE, 200, c, s, FALSE, "", "", "") : c \in {"", "t1"}, s \in {"", "sid0"}}
FallbackReplies ==
    {RequestThrew} \cup
    {Reply(FALSE, 200, c, "", b # "", "", "", b) : c \in {"", "t4"}, b \in {"", "t2"}}
CheckReplies ==
    {RequestThrew} \cup
    {Reply(FALSE, st, c, "", j, js, m, "") :
        st \in {200, 403}, c \in {"", "t3"}, j \in BOOLEAN,
        js \in {"success", "error"}, m \in {"get-pass", "get-code"}}
AuthReplies ==
    {RequestThrew} \cup
    {Reply(FALSE, st, "", s, j, js, "", "") :
        st \in {200, 403}, s \in {"", "sid"}, j \in BOOLEAN, js \in {"success", "error"}}

\* SimpleCookieStore.applySetCookie for the two cookies the handshake reads
applySetCookie(st, reply) ==
    [csrftoken |-> IF reply.setCsrf # "" THEN reply.setCsrf ELSE st.csrftoken,
     sessionid |-> IF reply.setSid # "" THEN reply.setSid ELSE st.sessionid]

fallbackToken_BodyOnly(cur, reply, st) ==
    IF cur # "" THEN cur
    ELSE IF reply.json /\ reply.bodyCsrf # "" THEN reply.bodyCsrf
    ELSE ""

\* lines 726-727: the token after the fallback probe
fallbackToken(cur, reply, st) ==
    IF cur # "" THEN cur
    ELSE IF reply.json /\ reply.bodyCsrf # "" THEN reply.bodyCsrf
    ELSE st.csrftoken

checkUserVerdict_AnyMessage(reply) ==
    IF reply.status < 200 \/ reply.status >= 300 THEN "HTTP"
    ELSE IF ~reply.json THEN "LOGIN_CHECK_JSON"
    ELSE IF reply.jstatus # "success" THEN "LOGIN_CHECK_FAILED"
    ELSE "ok"

\* lines 770-795: what the handshake makes of the check-active-user response
checkUserVerdict(reply) ==
    IF reply.status < 200 \/ reply.status >= 300 THEN "HTTP"
    ELSE IF ~reply.json THEN "LOGIN_CHECK_JSON"
    ELSE IF reply.jstatus # "success" THEN "LOGIN_CHECK_FAILED"
    ELSE IF reply.message # "get-pass" THEN "LOGIN_FLOW"
    ELSE "ok"

\* lines 816-833: what the handshake makes of the login-authentication response
loginAuthVerdict(reply) ==
    IF reply.status < 200 \/ reply.status >= 300 THEN "HTTP"
    ELSE IF ~reply.json THEN "LOGIN_AUTH_JSON"
    ELSE IF reply.jstatus # "success" THEN "LOGIN_AUTH_FAILED"
    ELSE "ok"

composesCookie_Always(st) == TRUE

\* lines 836-838: the store holds a sessionid
composesCookie(st) == st.sessionid # ""

\* lines 837, 848: the cookie pair the handshake composes
composedCookie(st, token) ==
    Cookie("login", IF st.csrftoken # "" THEN st.csrftoken ELSE token, st.sessionid)

\* lines 710-718: GET of the login page, the cookies it may set
LoginPage ==
    /\ sessPc = "loginPage"
    /\ \E reply \in PageReplies :
         /\ loginLog' = Append(loginLog,
                LoginRequest("GET /accounts/login/", "", "", FALSE, reply))
         /\ IF reply.threw
            THEN LoginFails("REQUEST") /\ UNCHANGED << store, csrf >>
            ELSE /\ store' = applySetCookie(store, reply)
                 /\ csrf' = store'.csrftoken
                 /\ sessPc' = IF csrf' # "" THEN "checkUser" ELSE "fallback"
                 /\ loginErr' = loginErr
    /\ UNCHANGED << outsideSession, COOKIE, storedSessionCookie, userEmail,
                    userPassword, forceLogin, ACTIVE_COOKIE, authCfg, configFile, prep,
                    coreData, exitCode, sessLog >>

\* lines 719-739: the fallback probe for the token, and LOGIN_CSRF without one
LoginFallback ==
    /\ sessPc = "fallback"
    /\ \E reply \in FallbackReplies :
         /\ loginLog' = Append(loginLog, LoginRequest("GET core-data", "", "", FALSE, reply))
         /\ IF reply.threw
            THEN LoginFails("REQUEST") /\ UNCHANGED << store, csrf >>
            ELSE /\ store' = applySetCookie(store, reply)
                 /\ csrf' = fallbackToken(csrf, reply, store')
                 /\ IF csrf' = ""
                    THEN LoginFails("LOGIN_CSRF")
                    ELSE sessPc' = "checkUser" /\ loginErr' = loginErr
    /\ UNCHANGED << outsideSession, COOKIE, storedSessionCookie, userEmail,
                    userPassword, forceLogin, ACTIVE_COOKIE, authCfg, configFile, prep,
                    coreData, exitCode, sessLog >>

\* lines 756-796: POST check-active-user with the token and the e-mail
CheckActiveUser ==
    /\ sessPc = "checkUser"
    /\ \E reply \in CheckReplies :
         /\ loginLog' = Append(loginLog,
                LoginRequest("POST check-active-user", csrf, store.csrftoken, FALSE, reply))
         /\ IF reply.threw
            THEN LoginFails("REQUEST") /\ store' = store
            ELSE /\ store' = applySetCookie(store, reply)
                 /\ IF checkUserVerdict(reply) = "ok"
                    THEN sessPc' = "loginAuth" /\ loginErr' = loginErr
                    ELSE LoginFails(checkUserVerdict(reply))
    /\ UNCHANGED << outsideSession, COOKIE, storedSessionCookie, userEmail,
                    userPassword, forceLogin, ACTIVE_COOKIE, authCfg, configFile, prep,
                    coreData, csrf, exitCode, sessLog >>

\* lines 798-851: POST login-authentication with the token, the e-mail and
\* the password, then the cookie pair is composed
LoginAuthentication ==
    /\ sessPc = "loginAuth"
    /\ \E reply \in AuthReplies :
         /\ loginLog' = Append(loginLog,
                LoginRequest("POST login-authentication", csrf, store.csrftoken, TRUE,
                             reply))
         /\ IF reply.threw
            THEN /\ LoginFails("REQUEST")
                 /\ UNCHANGED << store, ACTIVE_COOKIE, sessLog >>
            ELSE /\ store' = applySetCookie(store, reply)
                 /\ IF loginAuthVerdict(reply) # "ok"
                    THEN /\ LoginFails(loginAuthVerdict(reply))
                         /\ UNCHANGED << ACTIVE_COOKIE, sessLog >>
                    ELSE IF ~composesCookie(store')
                    THEN /\ LoginFails("LOGIN_COOKIE")
                         /\ UNCHANGED << ACTIVE_COOKIE, sessLog >>
                    ELSE /\ ACTIVE_COOKIE' = composedCookie(store', csrf)
                         /\ sessLog' = Append(sessLog,
                                              Install("fresh-login", ACTIVE_COOKIE'))
                         /\ sessPc' = "persist"
                         /\ loginErr' = loginErr
    /\ UNCHANGED << outsideSession, COOKIE, storedSessionCookie, userEmail,
                    userPassword, forceLogin, authCfg, configFile, prep, coreData,
                    csrf, exitCode >>

\* lines 903-908 and 100-108: the new cookie is put into config.auth and the
\* config file is written; a failed write is only logged
PersistSession ==
    /\ sessPc = "persist"
    /\ IF ACTIVE_COOKIE # Null
       THEN \E writeOk \in BOOLEAN :
            /\ authCfg' = AuthCfg(ACTIVE_COOKIE, "now")
            /\ configFile' = IF writeOk THEN authCfg' ELSE configFile
            /\ sessLog' = Append(sessLog, Written(ACTIVE_COOKIE, writeOk))
       ELSE UNCHANGED << authCfg, configFile, sessLog >>
    /\ sessPc' = "verify3"
    /\ UNCHANGED << outsideSession, COOKIE, storedSessionCookie, userEmail,
                    userPassword, forceLogin, ACTIVE_COOKIE, prep, coreData, store,
                    csrf, loginErr, exitCode, loginLog >>

\* lines 909-915: the cookie of the handshake is verified
VerifyFreshLogin ==
    /\ sessPc = "verify3"
    /\ VerifyAt("verify3", "fresh-login", "step4", FALSE)

\* lines 920-928: step 4, no source was verified
ReturnNone ==
    /\ sessPc = "step4"
    /\ prep' = [returned |-> TRUE, core |-> NullCore, source |-> "none"]
    /\ sessPc' = "returned"
    /\ UNCHANGED << outsideSession, COOKIE, storedSessionCookie, userEmail,
                    userPassword, forceLogin, ACTIVE_COOKIE, authCfg, configFile,
                    coreData, store, csrf, loginErr, exitCode, loginLog, sessLog >>

\* lines 1203-1206: the output root is made for real downloads only
createsOutputRoot_Always(dry) == TRUE

createsOutputRoot(dry) == ~dry

\* lines 1196-1209: main after prepareSession returned: the cookie must be
\* there, the output root is made, the core of prepareSession is taken over
EnsureCookiePresent ==
    /\ sessPc = "returned"
    /\ IF cookieMissing(ACTIVE_COOKIE, COOKIE)
       THEN /\ sessPc' = "exited"
            /\ exitCode' = 1
            /\ coreData' = coreData
            /\ dirs' = dirs
       ELSE /\ exitCode' = exitCode
            /\ dirs' = IF createsOutputRoot(isDryRun) THEN dirs \cup {"root"} ELSE dirs
            /\ coreData' = prep.core
            /\ sessPc' = IF prep.core.null THEN "mainProbe" ELSE "profile"
    /\ UNCHANGED << downloadVars, rawVars, fetchVars, pureVars, COOKIE, storedSessionCookie, userEmail,
                    userPassword, forceLogin, ACTIVE_COOKIE, authCfg, configFile, prep,
                    store, csrf, loginErr, loginLog, sessLog >>
    /\ UNCHANGED << isDryRun, units, mainPc, unitIndex, subtitleLinks,
                    attachmentLinks, counts, dryCounts, inFlight, returned, visited,
                    warned, unitLog, mainRequests >>

\* lines 1210-1223: main's own probe when prepareSession returned no core
MainProbe ==
    /\ sessPc = "mainProbe"
    /\ \E outcome \in ProbeOutcomes :
         /\ sessLog' = Append(sessLog, Probe("main", sentCookie(ACTIVE_COOKIE, COOKIE),
                                             outcome))
         /\ IF outcome = "failed"
            THEN /\ sessPc' = "exited"
                 /\ exitCode' = 1
                 /\ coreData' = coreData
            ELSE /\ coreData' = Core(outcome = "authenticated",
                                     sentCookie(ACTIVE_COOKIE, COOKIE))
                 /\ sessPc' = "profile"
                 /\ exitCode' = exitCode
    /\ UNCHANGED << outsideSession, COOKIE, storedSessionCookie, userEmail,
                    userPassword, forceLogin, ACTIVE_COOKIE, authCfg, configFile, prep,
                    store, csrf, loginErr, loginLog >>

\* lines 1225-1236: the profile must say authenticated, or the run exits
ProfileCheck ==
    /\ sessPc = "profile"
    /\ IF profileOk(coreData)
       THEN sessPc' = "catalog" /\ exitCode' = exitCode
       ELSE sessPc' = "exited" /\ exitCode' = 1
    /\ UNCHANGED << outsideSession, COOKIE, storedSessionCookie, userEmail,
                    userPassword, forceLogin, ACTIVE_COOKIE, authCfg, configFile, prep,
                    coreData, store, csrf, loginErr, loginLog, sessLog >>

\* A request of the course phase and the cookie commonHeaders gave it
CourseRequest(kind, cookie) == [kind |-> kind, cookie |-> cookie]

\* lines 1255-1269 (fetchChapters: 494-499): the catalog request, the first
\* request of the course phase.  A failed request throws out of main (exit 1),
\* an empty catalog exits with 2, otherwise main enters one of its two loops.
FetchChapters ==
    /\ sessPc = "catalog"
    /\ sessLog' = Append(sessLog, CatalogRequest)
    /\ mainRequests' = mainRequests \cup
                          {CourseRequest("catalog", sentCookie(ACTIVE_COOKIE, COOKIE))}
    /\ \E ok \in BOOLEAN :
         IF ~ok \/ units = << >>
         THEN /\ sessPc' = "exited"
              /\ exitCode' = IF ok THEN 2 ELSE 1
              /\ UNCHANGED << mainPc, unitIndex >>
         ELSE /\ sessPc' = "course"
              /\ exitCode' = exitCode
              /\ mainPc' = IF isDryRun THEN "dryLoop" ELSE "loop"
              /\ unitIndex' = 1
    /\ UNCHANGED << downloadVars, rawVars, fetchVars, pureVars, COOKIE, storedSessionCookie, userEmail,
                    userPassword, forceLogin, ACTIVE_COOKIE, authCfg, configFile, prep,
                    coreData, store, csrf, loginErr, loginLog >>
    /\ UNCHANGED << isDryRun, units, subtitleLinks, attachmentLinks, counts,
                    dryCounts, inFlight, returned, visited, warned, dirs, unitLog >>

SessionNext ==
    \/ UseConfigCookie
    \/ VerifyConfigCookie
    \/ UseStoredSession
    \/ VerifyStoredSession
    \/ StartLogin
    \/ LoginPage
    \/ LoginFallback
    \/ CheckActiveUser
    \/ LoginAuthentication
    \/ PersistSession
    \/ VerifyFreshLogin
    \/ ReturnNone
    \/ EnsureCookiePresent
    \/ MainProbe
    \/ ProfileCheck
    \/ FetchChapters

SpecSession == SessionInit /\ [][SessionNext]_vars

\* every await of main and prepareSession settles
SpecSessionLive == SpecSession /\ WF_vars(SessionNext)


\* ============================================= main: the course phase
\* The loops of main over the catalog (lines 1270-1528).  A transfer is a
\* downloadToFile call: it is started by the statement that calls it and
\* settles on its own; main goes on past an await once the call has settled.

Transfer(unit, kind) == [unit |-> unit, kind |-> kind]
Started(kind) == << kind, "start" >>
Ended(kind) == << kind, "end" >>
bump(c, field) == [c EXCEPT ![field] = @ + 1]

PageOutcomes == {"failed", "noSource", "ok"}
TransferStatuses == {"exists", "downloaded", "threw"}

\* lines 1441, 1463, 1495: `await downloadToFile(...)`: main resumes when
\* no call is pending
awaited_NoAwait(flights) == TRUE

awaited(flights) == flights = {}

\* lines 1509-1512: the unit's catch counts the failure; the for loop goes on
unitFailed_Aborts(c) == [next |-> "summary", counts |-> bump(c, "failedCount")]

unitFailed_Uncounted(c) == [next |-> "loop", counts |-> c]

unitFailed(c) == [next |-> "loop", counts |-> bump(c, "failedCount")]

\* downloadToFile is called (line 1463 or 1495)
Call(kind) ==
    /\ inFlight' = inFlight \cup {Transfer(unitIndex, kind)}
    /\ returned' = "none"
    /\ unitLog' = Append(unitLog, Started(kind))
    /\ mainRequests' = mainRequests \cup
                          {CourseRequest("transfer", sentCookie(ACTIVE_COOKIE, COOKIE))}

\* lines 1406-1427: the head of the download loop: the unit is skipped,
\* counted, or goes on to its lecture page
NextUnit ==
    /\ sessPc = "course"
    /\ mainPc = "loop"
    /\ IF unitIndex > Len(units)
       THEN /\ mainPc' = "summary"
            /\ UNCHANGED << unitIndex, counts, visited, unitLog >>
       ELSE LET kind == units[unitIndex] IN
            /\ visited' = visited \cup {unitIndex}
            /\ unitLog' = << >>
            /\ counts' = CASE kind = "quiz" -> bump(counts, "nonLectureUnits")
                           [] kind = "locked" ->
                                bump(bump(counts, "totalUnits"), "skippedCount")
                           [] kind = "lecture" -> bump(counts, "totalUnits")
                           [] OTHER -> counts
            /\ mainPc' = IF kind = "lecture" THEN "page" ELSE "loop"
            /\ unitIndex' = IF kind = "lecture" THEN unitIndex ELSE unitIndex + 1
    /\ UNCHANGED << outsideCourse, isDryRun, units, subtitleLinks, attachmentLinks,
                    dryCounts, inFlight, returned, warned, dirs, mainRequests >>

\* lines 1431-1441: the lecture page is fetched; a failure goes to the unit's
\* catch, a page without a source is skipped, otherwise the video transfer
\* is called
LecturePage ==
    /\ sessPc = "course"
    /\ mainPc = "page"
    /\ \E outcome \in PageOutcomes :
         LET asked == mainRequests \cup
                        {CourseRequest("page", sentCookie(ACTIVE_COOKIE, COOKIE))} IN
         CASE outcome = "failed" ->
                /\ counts' = unitFailed(counts).counts
                /\ mainPc' = unitFailed(counts).next
                /\ unitIndex' = unitIndex + 1
                /\ mainRequests' = asked
                /\ UNCHANGED << subtitleLinks, attachmentLinks, inFlight, returned,
                                unitLog >>
           [] outcome = "noSource" ->
                /\ counts' = bump(counts, "skippedCount")
                /\ mainPc' = "loop"
                /\ unitIndex' = unitIndex + 1
                /\ mainRequests' = asked
                /\ UNCHANGED << subtitleLinks, attachmentLinks, inFlight, returned,
                                unitLog >>
           [] outcome = "ok" ->
                /\ subtitleLinks' \in 0..MaxLinks
                /\ attachmentLinks' \in 0..MaxLinks
                /\ inFlight' = inFlight \cup {Transfer(unitIndex, "video")}
                /\ returned' = "none"
                /\ unitLog' = Append(unitLog, Started("video"))
                /\ mainRequests' = asked \cup
                      {CourseRequest("transfer", sentCookie(ACTIVE_COOKIE, COOKIE))}
                /\ mainPc' = "video"
                /\ UNCHANGED << counts, unitIndex >>
    /\ UNCHANGED << outsideCourse, isDryRun, units, dryCounts, visited, warned, dirs >>

\* lines 969-1153: a pending downloadToFile call returns 'exists' or
\* 'downloaded', or throws.  Line 1028: the file's directory is made once a
\* response has arrived, so always before 'downloaded', never before 'exists'.
TransferSettles ==
    /\ sessPc = "course"
    /\ \E t \in inFlight, st \in TransferStatuses, made \in BOOLEAN :
         /\ st = "downloaded" => made
         /\ st = "exists" => ~made
         /\ inFlight' = inFlight \ {t}
         /\ returned' = st
         /\ unitLog' = Append(unitLog, Ended(t.kind))
         /\ dirs' = IF made THEN dirs \cup {"root", "chapter"} ELSE dirs
    /\ UNCHANGED << outsideCourse, isDryRun, units, mainPc, unitIndex, subtitleLinks,
                    attachmentLinks, counts, dryCounts, visited, warned, mainRequests >>

\* lines 1441-1443 and 1509-1512: past the await of the video transfer
AfterVideo ==
    /\ sessPc = "course"
    /\ mainPc = "video"
    /\ awaited(inFlight)
    /\ IF returned = "threw"
       THEN /\ counts' = unitFailed(counts).counts
            /\ mainPc' = unitFailed(counts).next
            /\ unitIndex' = unitIndex + 1
       ELSE /\ counts' = IF returned = "exists"
                         THEN bump(counts, "skippedCount")
                         ELSE bump(counts, "downloadedCount")
            /\ mainPc' = "subtitles"
            /\ unitIndex' = unitIndex
    /\ unitLog' = IF returned = "threw" THEN << >> ELSE unitLog
    /\ returned' = "none"
    /\ UNCHANGED << outsideCourse, isDryRun, units, subtitleLinks, attachmentLinks,
                    dryCounts, inFlight, visited, warned, dirs, mainRequests >>

\* lines 1445-1463: the head of the subtitle loop: a subtitle on disk is
\* passed over, otherwise its transfer is called
SubtitleStep ==
    /\ sessPc = "course"
    /\ mainPc = "subtitles"
    /\ IF subtitleLinks = 0
       THEN /\ mainPc' = "attachments"
            /\ UNCHANGED << subtitleLinks, inFlight, returned, unitLog, mainRequests >>
       ELSE \E onDisk \in BOOLEAN :
              IF onDisk
              THEN /\ subtitleLinks' = subtitleLinks - 1
                   /\ UNCHANGED << mainPc, inFlight, returned, unitLog, mainRequests >>
              ELSE /\ Call("subtitle")
                   /\ mainPc' = "subtitle"
                   /\ subtitleLinks' = subtitleLinks
    /\ UNCHANGED << outsideCourse, isDryRun, units, unitIndex, attachmentLinks, counts,
                    dryCounts, visited, warned, dirs >>

\* lines 1463-1467: past the await of a subtitle transfer: a failure is
\* logged by logWarn and the loop goes on
AfterSubtitle ==
    /\ sessPc = "course"
    /\ mainPc = "subtitle"
    /\ awaited(inFlight)
    /\ warned' = IF returned = "threw" THEN warned \cup {"subtitle"} ELSE warned
    /\ subtitleLinks' = subtitleLinks - 1
    /\ mainPc' = "subtitles"
    /\ returned' = "none"
    /\ UNCHANGED << outsideCourse, isDryRun, units, unitIndex, attachmentLinks, counts,
                    dryCounts, inFlight, visited, dirs, unitLog, mainRequests >>

\* lines 1473-1508: the head of the attachment loop; after the last
\* attachment the unit is done
AttachmentStep ==
    /\ sessPc = "course"
    /\ mainPc = "attachments"
    /\ IF attachmentLinks = 0
       THEN /\ mainPc' = "loop"
            /\ unitIndex' = unitIndex + 1
            /\ unitLog' = << >>
            /\ UNCHANGED << attachmentLinks, inFlight, returned, mainRequests >>
       ELSE \E onDisk \in BOOLEAN :
              IF onDisk
              THEN /\ attachmentLinks' = attachmentLinks - 1
                   /\ UNCHANGED << mainPc, unitIndex, inFlight, returned, unitLog,
                                   mainRequests >>
              ELSE /\ Call("attachment")
                   /\ mainPc' = "attachment"
                   /\ UNCHANGED << attachmentLinks, unitIndex >>
    /\ UNCHANGED << outsideCourse, isDryRun, units, subtitleLinks, counts, dryCounts,
                    visited, warned, dirs >>

\* lines 1495-1501: past the await of an attachment transfer
AfterAttachment ==
    /\ sessPc = "course"
    /\ mainPc = "attachment"
    /\ awaited(inFlight)
    /\ warned' = IF returned = "threw" THEN warned \cup {"attachment"} ELSE warned
    /\ attachmentLinks' = attachmentLinks - 1
    /\ mainPc' = "attachments"
    /\ returned' = "none"
    /\ UNCHANGED << outsideCourse, isDryRun, units, unitIndex, subtitleLinks, counts,
                    dryCounts, inFlight, visited, dirs, unitLog, mainRequests >>

\* lines 1515-1528: the finally block prints the summary
Summary ==
    /\ sessPc = "course"
    /\ mainPc = "summary"
    /\ mainPc' = "done"
    /\ UNCHANGED << outsideCourse, isDryRun, units, unitIndex, subtitleLinks,
                    attachmentLinks, counts, dryCounts, inFlight, returned, visited,
                    warned, dirs, unitLog, mainRequests >>

\* lines 1295-1312: the head of the dry-run loop
DryUnit ==
    /\ sessPc = "course"
    /\ mainPc = "dryLoop"
    /\ IF unitIndex > Len(units)
       THEN /\ mainPc' = "drySummary"
            /\ UNCHANGED << unitIndex, dryCounts, visited >>
       ELSE LET kind == units[unitIndex] IN
            /\ visited' = visited \cup {unitIndex}
            /\ dryCounts' = CASE kind = "locked" ->
                                   bump(bump(dryCounts, "totalLectures"), "totalLocked")
                              [] kind = "lecture" ->
                                   [bump(dryCounts, "totalLectures")
                                      EXCEPT !.unitUnknownCount = 0]
                              [] OTHER -> dryCounts
            /\ mainPc' = IF kind = "lecture" THEN "dryPage" ELSE "dryLoop"
            /\ unitIndex' = IF kind = "lecture" THEN unitIndex ELSE unitIndex + 1
    /\ UNCHANGED << outsideCourse, isDryRun, units, subtitleLinks, attachmentLinks,
                    counts, inFlight, returned, warned, dirs, unitLog, mainRequests >>

\* lines 1315-1325 and 1374-1378: the lecture page of the preview
DryPage ==
    /\ sessPc = "course"
    /\ mainPc = "dryPage"
    /\ mainRequests' = mainRequests \cup
                          {CourseRequest("page", sentCookie(ACTIVE_COOKIE, COOKIE))}
    /\ \E outcome \in PageOutcomes :
         IF outcome = "ok"
         THEN /\ subtitleLinks' \in 0..MaxLinks
              /\ attachmentLinks' \in 0..MaxLinks
              /\ mainPc' = "dryVideo"
              /\ UNCHANGED << dryCounts, unitIndex >>
         ELSE /\ dryCounts' = bump(dryCounts, "totalUnknownSize")
              /\ mainPc' = "dryLoop"
              /\ unitIndex' = unitIndex + 1
              /\ UNCHANGED << subtitleLinks, attachmentLinks >>
    /\ UNCHANGED << outsideCourse, isDryRun, units, counts, inFlight, returned,
                    visited, warned, dirs, unitLog >>

\* getRemoteSizeAndRanges as the preview calls it (lines 1326, 1335, 1340):
\* a probe request; the size comes back known or not
SizeProbe(known) ==
    /\ mainRequests' = mainRequests \cup
                          {CourseRequest("probe", sentCookie(ACTIVE_COOKIE, COOKIE))}
    /\ dryCounts' = IF known THEN dryCounts ELSE bump(dryCounts, "unitUnknownCount")

\* lines 1326-1327: the size probe of the video
DryProbeVideo ==
    /\ sessPc = "course"
    /\ mainPc = "dryVideo"
    /\ \E known \in BOOLEAN : SizeProbe(known)
    /\ mainPc' = "dryLinks"
    /\ UNCHANGED << outsideCourse, isDryRun, units, unitIndex, subtitleLinks,
                    attachmentLinks, counts, inFlight, returned, visited, warned, dirs,
                    unitLog >>

\* lines 1334-1343: the size probes of the subtitles, then of the attachments
DryProbeLink ==
    /\ sessPc = "course"
    /\ mainPc = "dryLinks"
    /\ subtitleLinks + attachmentLinks > 0
    /\ \E known \in BOOLEAN : SizeProbe(known)
    /\ subtitleLinks' = IF subtitleLinks > 0 THEN subtitleLinks - 1 ELSE 0
    /\ attachmentLinks' = IF subtitleLinks > 0 THEN attachmentLinks
                          ELSE attachmentLinks - 1
    /\ UNCHANGED << outsideCourse, isDryRun, units, mainPc, unitIndex, counts,
                    inFlight, returned, visited, warned, dirs, unitLog >>

\* lines 1344-1373: the unit's estimate is added up and printed
DryUnitDone ==
    /\ sessPc = "course"
    /\ mainPc = "dryLinks"
    /\ subtitleLinks + attachmentLinks = 0
    /\ dryCounts' = IF dryCounts.unitUnknownCount > 0
                    THEN bump(dryCounts, "totalUnknownSize")
                    ELSE dryCounts
    /\ mainPc' = "dryLoop"
    /\ unitIndex' = unitIndex + 1
    /\ UNCHANGED << outsideCourse, isDryRun, units, subtitleLinks, attachmentLinks,
                    counts, inFlight, returned, visited, warned, dirs, unitLog,
                    mainRequests >>

\* lines 1381-1391: the preview's summary; main returns
DrySummary ==
    /\ sessPc = "course"
    /\ mainPc = "drySummary"
    /\ mainPc' = "done"
    /\ UNCHANGED << outsideCourse, isDryRun, units, unitIndex, subtitleLinks,
                    attachmentLinks, counts, dryCounts, inFlight, returned, visited,
                    warned, dirs, unitLog, mainRequests >>

\* A run of main without login credentials: the flags and the catalog are
\* drawn; the config holds either an override cookie or a stored session.
MainInit ==
    /\ DownloadIdle
    /\ FetchIdle
    /\ RawIdle
    /\ \/ COOKIE = OverrideCookie /\ storedSessionCookie = Null
       \/ COOKIE = Placeholder /\ storedSessionCookie = StoredCookie
    /\ userEmail = ""
    /\ userPassword = ""
    /\ forceLogin = FALSE
    /\ SessionEntry
    /\ isDryRun \in BOOLEAN
    /\ units \in Catalogs
    /\ MainEntry
    /\ PureIdle

CourseNext ==
    \/ NextUnit
    \/ LecturePage
    \/ TransferSettles
    \/ AfterVideo
    \/ SubtitleStep
    \/ AfterSubtitle
    \/ AttachmentStep
    \/ AfterAttachment
    \/ Summary
    \/ DryUnit
    \/ DryPage
    \/ DryProbeVideo
    \/ DryProbeLink
    \/ DryUnitDone
    \/ DrySummary

MainNext ==
    \/ UseConfigCookie
    \/ VerifyConfigCookie
    \/ UseStoredSession
    \/ VerifyStoredSession
    \/ StartLogin
    \/ ReturnNone
    \/ EnsureCookiePresent
    \/ MainProbe
    \/ ProfileCheck
    \/ FetchChapters
    \/ CourseNext

SpecMain == MainInit /\ [][MainNext]_vars

\* Every request of main is bounded by its timeouts and its retry budget and
\* a transfer settles (lines 440-462, 969-1153), and main's own statements run
\* on: each step of main that can be taken is taken.
SpecMainLive == SpecMain /\ WF_vars(MainNext)


\* ================================================== the pure functions
\* A call of toBackoffMs with an attempt number, or of isRetriableStatus with
\* a status code.
StatusCodes == (0 - 1)..MaxStatusCode
AttemptNumbers == 1..MaxAttemptArg

\* A header of the response as headers.get gives it: absent (null), a decimal
\* number, or a text parseInt makes nothing of.  Content-Range either ends
\* with '/<digits>', the declared total, or does not ('bytes 0-0/*').
Header(kind, n) == [kind |-> kind, n |-> n]
ContentLengths ==
    {Header("absent", Undef), Header("text", Undef)}
        \cup {Header("number", n) : n \in 0..RemoteSize}
ContentRanges ==
    {Header("absent", Undef), Header("star", Undef)}
        \cup {Header("total", n) : n \in 0..RemoteSize}

\* parseInt(h, 10) of a header that is present
parseInt(h) == IF h.kind \in {"number", "total"} THEN h.n ELSE NaN

\* The response an attempt of downloadToFile sees when it sets up its progress
\* state: sampling attempts never resume (line 991)
ProgressInputs ==
    {a \in [sampleBytes : 0..MaxSample, resumeOffset : 0..RemoteSize,
            contentLength : ContentLengths, contentRange : ContentRanges] :
        a.sampleBytes > 0 => a.resumeOffset = 0}

expectedTotal_LengthFirst(sample, contentRange, contentLength, offset) ==
    LET fullLength == IF contentLength.kind # "absent"
                      THEN parseInt(contentLength) ELSE Undef IN
    IF sample > 0 THEN sample
    ELSE IF Truthy(fullLength) /\ offset > 0 THEN offset + fullLength
    ELSE IF contentRange.kind = "total" THEN parseInt(contentRange)
    ELSE fullLength

\* lines 1041-1050: the expected total of the attempt
expectedTotal(sample, contentRange, contentLength, offset) ==
    LET fullLength == IF contentLength.kind # "absent"
                      THEN parseInt(contentLength) ELSE Undef IN
    IF sample > 0 THEN sample
    ELSE IF contentRange.kind = "total" THEN parseInt(contentRange)
    ELSE IF Truthy(fullLength) /\ offset > 0 THEN offset + fullLength
    ELSE fullLength

\* What a probe request of getRemoteSizeAndRanges ends with: the request
\* throws (network error, timeout, retries used up) or a response arrives.
ProbeThrew == [kind |-> "threw"]
AcceptRangesValues == {"absent", "none", "bytes", "Bytes"}
HeadAnswers ==
    {ProbeThrew} \cup
    [kind : {"response"}, status : {200, 204, 403},
     contentLength : ContentLengths, acceptRanges : AcceptRangesValues]
RangeAnswers ==
    {ProbeThrew} \cup
    [kind : {"response"}, status : {200, 206, 416}, contentRange : ContentRanges]

\* lines 470-476: the HEAD request did not throw and its response is 2xx
headDecides(head) == head.kind = "response" /\ IsOk(head.status)

headInfo_NoRanges(head) ==
    Info(IF head.contentLength.kind # "absent" THEN parseInt(head.contentLength) ELSE Undef,
         FALSE)

\* lines 472-475: what a 2xx HEAD response makes the function return
headInfo(head) ==
    Info(IF head.contentLength.kind # "absent" THEN parseInt(head.contentLength) ELSE Undef,
         head.acceptRanges \in {"bytes", "Bytes"})

rangeInfo_Any2xx(get) ==
    IF get.kind = "response" /\ IsOk(get.status)
    THEN Info(IF get.contentRange.kind = "total" THEN parseInt(get.contentRange) ELSE Undef,
              TRUE)
    ELSE Info(Undef, FALSE)

\* lines 479-490: what the function returns after the ranged GET
rangeInfo(get) ==
    IF get.kind = "response" /\ get.status = 206
    THEN Info(IF get.contentRange.kind = "total" THEN parseInt(get.contentRange) ELSE Undef,
              TRUE)
    ELSE Info(Undef, FALSE)

\* ---- SimpleCookieStore (lines 626-641).  A text is the sequence of its
\* characters; the store's Map is the sequence of its entries in insertion
\* order.
SetCookieLines ==
    { << >>,
      << "a", "=", "1" >>,
      << "a", "=", "2", ";", "x", "=", "9" >>,
      << " ", "a", " ", "=", " ", "3", " ", ";", "p" >>,
      << "a", "=" >>,
      << "a", "=", "b", "=", "1" >>,
      << "b", "=", "1" >>,
      << "b" >>,
      << "b", ";", "a", "=", "1" >>,
      << "=", "1" >>,
      << " ", "=", "1" >> }

\* String.prototype.indexOf, 1-based, 0 when c does not occur
indexOf(text, c) ==
    IF \E i \in 1..Len(text) : text[i] = c
    THEN CHOOSE i \in 1..Len(text) : text[i] = c /\ \A j \in 1..(i - 1) : text[j] # c
    ELSE 0

\* String.prototype.trim
trim(text) ==
    LET inked == {i \in 1..Len(text) : text[i] # " "} IN
    IF inked = {} THEN << >>
    ELSE SubSeq(text, CHOOSE i \in inked : \A j \in inked : i <= j,
                      CHOOSE i \in inked : \A j \in inked : i >= j)

\* line.split(';')[0]
firstSegment(line) ==
    IF indexOf(line, ";") = 0 THEN line ELSE SubSeq(line, 1, indexOf(line, ";") - 1)

Entry(k, v) == [k |-> k, v |-> v]

\* Map.prototype.set: an existing key keeps its place
mapSet(map, k, v) ==
    IF \E i \in 1..Len(map) : map[i].k = k
    THEN [i \in 1..Len(map) |-> IF map[i].k = k THEN Entry(k, v) ELSE map[i]]
    ELSE Append(map, Entry(k, v))

setCookieLine_WholeLine(map, line) ==
    IF line = << >> THEN map
    ELSE IF indexOf(line, "=") = 0 THEN map
    ELSE LET k == trim(SubSeq(line, 1, indexOf(line, "=") - 1))
             v == trim(SubSeq(line, indexOf(line, "=") + 1, Len(line)))
         IN  IF k # << >> THEN mapSet(map, k, v) ELSE map

\* lines 628-636
setCookieLine(map, line) ==
    IF line = << >> THEN map
    ELSE LET seg == firstSegment(line)
             eq == indexOf(seg, "=")
         IN  IF eq = 0 THEN map
             ELSE LET k == trim(SubSeq(seg, 1, eq - 1))
                      v == trim(SubSeq(seg, eq + 1, Len(seg)))
                  IN  IF k # << >> THEN mapSet(map, k, v) ELSE map

\* line 638: Map.prototype.get; undefined when the name is not a key
get(map, name) ==
    IF \E i \in 1..Len(map) : map[i].k = name
    THEN [defined |-> TRUE, value |-> map[CHOOSE i \in 1..Len(map) : map[i].k = name].v]
    ELSE [defined |-> FALSE, value |-> << >>]

\* Array.prototype.join
RECURSIVE join(_, _)
join(texts, sep) ==
    IF texts = << >> THEN << >>
    ELSE IF Len(texts) = 1 THEN texts[1]
    ELSE texts[1] \o sep \o join(Tail(texts), sep)

\* line 639
headerString(map) ==
    join([i \in 1..Len(map) |-> map[i].k \o << "=" >> \o map[i].v], << ";", " " >>)

PureInit ==
    /\ DownloadIdle
    /\ FetchIdle
    /\ RawIdle
    /\ SessionIdle
    /\ MainIdle
    /\ \/ fn = "toBackoffMs" /\ arg \in AttemptNumbers
       \/ fn = "isRetriableStatus" /\ arg \in StatusCodes
       \/ fn = "expectedTotal" /\ arg \in ProgressInputs
       \/ fn = "getRemoteSizeAndRanges"
          /\ arg \in [head : HeadAnswers, get : RangeAnswers]
       \/ fn = "SimpleCookieStore" /\ arg = << >>
    /\ ret = << >>

\* lines 1041-1051: the progress state of an attempt: the expected total and
\* the byte counter downloadedBytes
ProgressSetup ==
    /\ fn = "expectedTotal"
    /\ ret = << >>
    /\ ret' = << expectedTotal(arg.sampleBytes, arg.contentRange, arg.contentLength,
                              arg.resumeOffset),
                 arg.resumeOffset >>
    /\ UNCHANGED << downloadVars, rawVars, fetchVars, sessionVars, mainVars, fn, arg >>

\* lines 110-112, called for the attempt that failed and, had the next one
\* failed too, for that one
CallToBackoffMs ==
    /\ fn = "toBackoffMs"
    /\ ret = << >>
    /\ ret' = << toBackoffMs(arg), toBackoffMs(arg + 1) >>
    /\ UNCHANGED << downloadVars, rawVars, fetchVars, sessionVars, mainVars, fn, arg >>

\* lines 114-116
CallIsRetriableStatus ==
    /\ fn = "isRetriableStatus"
    /\ ret = << >>
    /\ ret' = << isRetriableStatus(arg) >>
    /\ UNCHANGED << downloadVars, rawVars, fetchVars, sessionVars, mainVars, fn, arg >>

\* getRemoteSizeAndRanges, lines 469-477: the HEAD request; ret lists the
\* requests issued so far and, once the function has returned, its result
HeadRequest ==
    /\ fn = "getRemoteSizeAndRanges"
    /\ ret = << >>
    /\ ret' = IF headDecides(arg.head) THEN << "HEAD", headInfo(arg.head) >>
              ELSE << "HEAD" >>
    /\ UNCHANGED << downloadVars, rawVars, fetchVars, sessionVars, mainVars, fn, arg >>

\* getRemoteSizeAndRanges, lines 478-490: the ranged GET and the final return
RangeRequest ==
    /\ fn = "getRemoteSizeAndRanges"
    /\ ret = << "HEAD" >>
    /\ ret' = << "HEAD", "GET", rangeInfo(arg.get) >>
    /\ UNCHANGED << downloadVars, rawVars, fetchVars, sessionVars, mainVars, fn, arg >>

\* lines 628-637: a new store (ret, the Map, is empty) is given one more
\* Set-Cookie line; arg keeps the lines given so far
IngestSetCookie ==
    /\ fn = "SimpleCookieStore"
    /\ Len(arg) < MaxCookieLines
    /\ \E line \in SetCookieLines :
         /\ arg' = Append(arg, line)
         /\ ret' = setCookieLine(ret, line)
    /\ UNCHANGED << downloadVars, rawVars, fetchVars, sessionVars, mainVars, fn >>

PureNext ==
    \/ CallToBackoffMs
    \/ CallIsRetriableStatus
    \/ ProgressSetup
    \/ HeadRequest
    \/ RangeRequest
    \/ IngestSetCookie

SpecPure == PureInit /\ [][PureNext]_vars

\* a function that was called runs to its return
SpecPureLive == SpecPure /\ WF_vars(PureNext)


\* ================================================================== claims

\* C1: on every attempt of a non-sample call the resume offset sent as
\* 'bytes=offset-' is the size the temporary file has when the attempt starts,
\* and therefore a call that returns 'downloaded' against a remote that honours
\* ranges leaves exactly the remote's bytes in the final file.
C1_ResumeOffsetIsTmpSize ==
    /\ \A i \in 1..Len(reqLog) :
         (sampleBytes = 0 /\ reqLog[i].range.kind = "from")
            => reqLog[i].offset = reqLog[i].tmpSize
    /\ (result = "downloaded" /\ sampleBytes = 0 /\ remote.honoursRange)
            => finalFile = RemoteBytes

\* C2: a non-sample call that finds N > 0 bytes in the temporary file sends
\* 'bytes=N-' as its first body request; when that request is answered 206 the
\* body is appended after the N bytes, and when it completes the temporary file
\* becomes the final file, of the remote's size, and the result is 'downloaded'.
C2_ResumeFromTmp ==
    (sampleBytes = 0 /\ Len(tmp0) > 0 /\ Len(reqLog) >= 1) =>
        /\ reqLog[1].range = RangeFrom(Len(tmp0))
        /\ (attempt = 1 /\ pc \in {"streaming", "drained"}) =>
              /\ status = 206
              /\ Len(tmpFile) = downloadedBytes
              /\ tmpFile = tmp0 \o SubSeq(RemoteBytes, Len(tmp0) + 1, downloadedBytes)
        /\ (attempt = 1 /\ result = "downloaded") =>
              /\ finalFile = RemoteBytes
              /\ Len(finalFile) = RemoteSize
              /\ tmpFile = << >>
              /\ finalizedBy \in {"rename", "copy"}

C2_Witness ==
    /\ sampleBytes = 0 /\ Len(tmp0) > 0 /\ attempt = 1
    /\ result = "downloaded"
    /\ reqLog = << [attempt |-> 1, range |-> RangeFrom(Len(tmp0)),
                    offset |-> Len(tmp0), tmpSize |-> Len(tmp0)] >>
    /\ finalFile = RemoteBytes

\* C3: when a resume request is answered with a success status other than 206
\* and attempts remain, the call does not end with the error: a further attempt
\* is issued.
C3_RefusedRangeRestarts ==
    ~(result = "threw" /\ lastErr = RangeRefused /\ attempt < maxRetries)

\* C4: a body request answered with a retriable status (408, 425, 429, 5xx) is
\* absorbed while attempts remain: the error reaches the caller only when the
\* attempts are exhausted or the status is not retriable.
C4_RetriableStatusAbsorbed ==
    (result = "threw" /\ lastErr = HttpError(status))
        => (attempt >= maxRetries \/ ~isRetriableStatus(status))


C6_ExistsWhenComplete ==
    /\ (sampleBytes = 0 /\ Len(final0) > 0 /\ remoteInfo.set
          /\ Truthy(remoteInfo.size) /\ Len(final0) >= remoteInfo.size)
        => /\ result = "exists"
           /\ pc = "done"
           /\ reqLog = << >>
           /\ finalFile = final0
           /\ tmpFile = tmp0
    /\ (result = "exists" /\ headOk) => (getProbes = 0 /\ reqLog = << >>)

C6_Witness ==
    /\ sampleBytes = 0
    /\ result = "exists"
    /\ headOk
    /\ remoteInfo = Info(RemoteSize, FALSE)
    /\ Len(final0) = RemoteSize
    /\ getProbes = 0

\* C6 as stated: the same for every known reported size, a reported size of
\* zero included.
C6_Original ==
    (sampleBytes = 0 /\ Len(final0) > 0 /\ remoteInfo.set
       /\ remoteInfo.size # Undef /\ Len(final0) >= remoteInfo.size)
     => /\ result = "exists"
        /\ reqLog = << >>
        /\ finalFile = final0
        /\ tmpFile = tmp0

\* C7: with a sample cap set and a final file that is not empty, the call
\* returns 'exists' at once, whatever the file's size: no probe, no body
\* request, and neither file changes.
C7_SampleExistsAtOnce ==
    (sampleBytes > 0 /\ Len(final0) > 0 /\ pc # "entry") =>
        /\ result = "exists"
        /\ pc = "done"
        /\ headProbes = 0
        /\ getProbes = 0
        /\ reqLog = << >>
        /\ finalFile = final0
        /\ tmpFile = tmp0

C7_Witness ==
    /\ sampleBytes > 0
    /\ Len(final0) > 0 /\ Len(final0) < sampleBytes
    /\ Len(tmp0) > 0
    /\ result = "exists"

\* C8: the idle-read watchdog is re-armed by every chunk; it fires only after
\* readTimeoutMs without a chunk, the abort is a retriable timeout, and then
\* attempt k < maxRetries is followed by exactly one attempt k+1 after a sleep
\* of toBackoffMs(k), while attempt k = maxRetries propagates the error.
C8_IdleTimeoutRetry ==
    [][ /\ (pc = "streaming" /\ pc' = "streaming" /\ body' # body)
            => (readIdleTimer' = RUNTIME_CONFIG.readTimeoutMs /\ sinceChunk' = 0)
        /\ (pc' = "streaming") => sinceChunk' <= RUNTIME_CONFIG.readTimeoutMs
        /\ (lastAbort' # lastAbort /\ lastAbort'.by = "readIdle")
            => /\ lastAbort'.silentFor = RUNTIME_CONFIG.readTimeoutMs
               /\ isTimeoutError(lastErr') /\ retryable(lastErr')
               /\ IF attempt < maxRetries
                  THEN pc' = "sleep" /\ sleepMs' = toBackoffMs(attempt)
                  ELSE pc' = "done" /\ result' = "threw"
        /\ (pc = "sleep")
            => /\ pc' = "attempt"
               /\ attempt' = attempt + 1
               /\ backoffLog' = Append(backoffLog, sleepMs)
        /\ (pc = "attempt" /\ pc' = "fetch") => Len(reqLog') = attempt
      ]_vars

C8_Witness ==
    /\ pc = "sleep"
    /\ lastAbort.by = "readIdle"
    /\ lastAbort.silentFor = RUNTIME_CONFIG.readTimeoutMs
    /\ attempt = 1
    /\ sleepMs = toBackoffMs(1)
    /\ final0 = << >>
    /\ Len(tmpFile) > Len(tmp0)

\* C9: once the response headers have arrived, a timer aborts the body
\* transfer only if it is the idle-read watchdog, after readTimeoutMs without a
\* chunk: the requestTimeoutMs timer never aborts a body transfer.
C9_OnlyWatchdogCancelsBody ==
    (lastAbort.during = "body")
        => (lastAbort.by = "readIdle"
            /\ lastAbort.silentFor >= RUNTIME_CONFIG.readTimeoutMs)

\* C10: the final path gets content only from the temporary file, and only
\* once the attempt's pipeline has delivered the whole body without error or
\* the sample cap has fired; an attempt that fails leaves the final file as it
\* was.
C10_FinalOnlyByRename ==
    [][ /\ (finalFile' # finalFile /\ finalFile' # << >>)
            => /\ finalFile' = tmpFile
               /\ result' = "downloaded"
               /\ finalizedBy' \in {"rename", "copy"}
               /\ lastErr = NoErr
               /\ IsOk(status)
               /\ byteLimitReached \/ (body = << >> /\ pc = "drained")
        /\ (lastErr' # lastErr /\ lastErr' # NoErr) => finalFile' = finalFile
      ]_vars

C10_Witness ==
    /\ result = "downloaded"
    /\ final0 # << >>
    /\ finalFile # final0
    /\ finalizedBy = "copy"
    /\ Len(backoffLog) >= 1

\* C11: an attempt that fails for another reason than a refused resume leaves
\* the temporary file as it is, with the bytes written so far; the loop sleeps
\* toBackoffMs(k) and goes on only if k < maxRetries and the failure is
\* retriable (a retriable transport error or a retriable status), otherwise the
\* error is thrown; and never more than maxRetries body requests are issued.
C11_FailureKeepsTmpAndBudget ==
    [][ /\ (lastErr' # lastErr /\ lastErr' # NoErr)
            => /\ (lastErr' # RangeRefused) => tmpFile' = tmpFile
               /\ (pc' = "sleep")
                    => /\ attempt < maxRetries
                       /\ \/ isRetriableNetworkError(lastErr')
                          \/ \E st \in FailStatuses :
                               lastErr' = HttpError(st) /\ isRetriableStatus(st)
                       /\ sleepMs' = toBackoffMs(attempt)
               /\ (pc' # "sleep") => (pc' = "done" /\ result' = "threw")
        /\ Len(reqLog') <= maxRetries
      ]_vars

C11_Witness ==
    /\ pc = "sleep"
    /\ attempt = 1
    /\ lastErr.name = "TypeError"
    /\ final0 = << >>
    /\ tmp0 = << >>
    /\ Len(tmpFile) > 0
    /\ Len(reqLog) = 1
    /\ sleepMs = toBackoffMs(1)

\* the outcome the step appends to fetchLog, if it appends one
FetchOutcomeArrives == Len(fetchLog') = Len(fetchLog) + 1
NewOutcome == fetchLog'[Len(fetchLog')]

\* C12: in fetchWithRetry a response with a retriable status on attempt
\* k < retries is dropped, the call sleeps toBackoffMs(k) and then issues
\* attempt k+1; a response with a non-retriable status (2xx or not) is returned
\* as it is on the attempt it arrives, nothing is thrown and nothing follows.
C12_StatusRetryPolicy ==
    [][ /\ (FetchOutcomeArrives /\ NewOutcome.kind = "status")
            => IF isRetriableStatus(NewOutcome.status) /\ fetchAttempt < retries
               THEN /\ fetchPc' = "sleep"
                    /\ fetchSleepMs' = toBackoffMs(fetchAttempt)
                    /\ fetchResult' = NoResult
               ELSE IF ~isRetriableStatus(NewOutcome.status)
               THEN /\ fetchPc' = "returned"
                    /\ fetchResult' = Response(NewOutcome.status)
                    /\ Len(fetchLog') = fetchAttempt
               ELSE TRUE
        /\ (fetchPc = "sleep")
            => /\ fetchPc' = "loop"
               /\ fetchAttempt' = fetchAttempt + 1
               /\ fetchBackoffLog' = Append(fetchBackoffLog, fetchSleepMs)
        /\ (fetchPc = "loop" /\ fetchAttempt <= retries)
            => (fetchPc' = "inflight" /\ fetchRequests' = fetchAttempt)
        /\ (fetchPc = "returned") => FALSE
      ]_vars

C12_Witness ==
    /\ fetchPc = "returned"
    /\ Len(fetchLog) = 2
    /\ fetchLog[1] = Outcome("status", 503, NoErr)
    /\ fetchBackoffLog = << toBackoffMs(1) >>
    /\ fetchRequests = 2
    /\ fetchResult = Response(404)

\* C13: the timer of fetchWithTimeout aborts an attempt that is still in
\* flight after timeoutMs, and the abort is a timeout error; an error thrown on
\* attempt k is followed by a sleep of toBackoffMs(k) and attempt k+1 exactly
\* when isRetriableNetworkError holds for it and k < retries, and is thrown to
\* the caller at once otherwise.
C13_ErrorRetryPolicy ==
    [][ /\ (FetchOutcomeArrives /\ NewOutcome.kind = "timeout")
            => /\ fetchTimer = 0
               /\ NewOutcome.err.name = "AbortError"
               /\ isTimeoutError(NewOutcome.err)
        /\ (fetchPc' = "inflight") => (fetchTimer' >= 0 /\ fetchTimer' <= timeoutMs)
        /\ (FetchOutcomeArrives /\ NewOutcome.kind \in {"error", "timeout"})
            => IF isRetriableNetworkError(NewOutcome.err) /\ fetchAttempt < retries
               THEN /\ fetchPc' = "sleep"
                    /\ fetchSleepMs' = toBackoffMs(fetchAttempt)
                    /\ fetchResult' = NoResult
               ELSE /\ fetchPc' = "threw"
                    /\ fetchResult' = Thrown(NewOutcome.err)
                    /\ Len(fetchLog') = fetchAttempt
        /\ (fetchPc = "sleep" /\ fetchLog[Len(fetchLog)].kind # "status")
            => (fetchPc' = "loop" /\ fetchAttempt' = fetchAttempt + 1)
        /\ (fetchPc = "threw") => FALSE
      ]_vars

C13_Witness ==
    /\ fetchPc = "threw"
    /\ retries = 2
    /\ Len(fetchLog) = 2
    /\ fetchLog[1].kind = "timeout"
    /\ fetchBackoffLog = << toBackoffMs(1) >>
    /\ fetchLog[2].kind = "timeout"
    /\ fetchResult = Thrown(AbortError)

\* C14: fetchWithRetry never issues more than retries requests; the outcome
\* of attempt number retries ends the call and decides its result alone: a
\* thrown error is thrown to the caller, a response (a retriable status
\* included) is returned, whatever the earlier attempts failed with.
C14_LastAttemptDecides ==
    [][ /\ fetchRequests' <= retries
        /\ (FetchOutcomeArrives /\ Len(fetchLog') = retries)
            => /\ fetchPc' \in {"returned", "threw"}
               /\ fetchResult' = IF NewOutcome.kind = "status"
                                 THEN Response(NewOutcome.status)
                                 ELSE Thrown(NewOutcome.err)
        /\ (fetchPc \in {"returned", "threw"}) => FALSE
      ]_vars

C14_Witness ==
    /\ retries = 2
    /\ Len(fetchLog) = 2
    /\ fetchLog[1].kind = "error"
    /\ fetchLog[2].kind = "status"
    /\ isRetriableStatus(fetchLog[2].status)
    /\ fetchResult = Response(fetchLog[2].status)
    /\ fetchPc = "returned"

\* ---- the history of a run
SourceRank(source) ==
    CASE source = "config-cookie" -> 1
      [] source = "config-session" -> 2
      [] source = "fresh-login" -> 3
      [] OTHER -> 4
\* entries written by prepareSession
ByPrepare(i) == sessLog[i].source # "main"
AuthenticatedProbe(i) == sessLog[i].ev = "probe" /\ sessLog[i].outcome = "authenticated"
HasCredentials == userEmail # "" /\ userPassword # ""
LoginPerformed == loginLog # << >>
\* the latest probe sent with the cookie, 0 if there is none
LastProbeWith(cookie) ==
    LET S == {i \in 1..Len(sessLog) : sessLog[i].ev = "probe" /\ sessLog[i].cookie = cookie}
    IN IF S = {} THEN 0 ELSE CHOOSE i \in S : \A j \in S : j <= i

\* C15: prepareSession tries the override cookie, the stored session and
\* the fresh login in this order; a source that is tried is made the active
\* credential and then probed with that credential; the first probe that says
\* authenticated ends prepareSession with that source as its result, nothing
\* is installed or probed after it, and no other result names a source.
C15_SourcesInOrder ==
    /\ \A i, j \in 1..Len(sessLog) :
         (i < j /\ ByPrepare(i) /\ ByPrepare(j))
            => SourceRank(sessLog[i].source) <= SourceRank(sessLog[j].source)
    /\ \A i \in 1..Len(sessLog) :
         (ByPrepare(i) /\ sessLog[i].ev = "probe")
            => \E j \in 1..(i - 1) :
                 sessLog[j] = Install(sessLog[i].source, sessLog[i].cookie)
    /\ \A i \in 1..Len(sessLog) :
         (sessLog[i].ev = "install" /\ prep.returned)
            => \E j \in (i + 1)..Len(sessLog) :
                 /\ sessLog[j].ev = "probe"
                 /\ sessLog[j].source = sessLog[i].source
    /\ \A i \in 1..Len(sessLog) :
         (ByPrepare(i) /\ AuthenticatedProbe(i))
            => /\ prep.returned
               /\ prep.source = sessLog[i].source
               /\ \A j \in (i + 1)..Len(sessLog) : ~ByPrepare(j)
    /\ (prep.returned /\ prep.source # "none")
            => \E i \in 1..Len(sessLog) :
                 /\ ByPrepare(i) /\ AuthenticatedProbe(i)
                 /\ sessLog[i].source = prep.source

C15_Witness ==
    /\ sessPc = "returned"
    /\ prep.source = "fresh-login"
    /\ Len(sessLog) = 7
    /\ sessLog[2] = Probe("config-cookie", OverrideCookie, "anonymous")
    /\ sessLog[4] = Probe("config-session", StoredCookie, "failed")
    /\ sessLog[7].outcome = "authenticated"

\* C16 as stated: with forceLogin and an email/password pair the handshake
\* is performed in every run, and the stored session is never installed or
\* probed.
C16_Original ==
    /\ (prep.returned /\ forceLogin /\ HasCredentials) => LoginPerformed
    /\ forceLogin => \A i \in 1..Len(sessLog) : sessLog[i].source # "config-session"

\* C16: with forceLogin and an email/password pair the handshake is
\* performed unless the override cookie was verified first (result
\* 'config-cookie'); a stored session, valid or not, is never installed or
\* probed when forceLogin is set.
C16_ForcedLogin ==
    /\ (prep.returned /\ forceLogin /\ HasCredentials)
            => (LoginPerformed \/ prep.source = "config-cookie")
    /\ forceLogin
            => /\ \A i \in 1..Len(sessLog) : sessLog[i].source # "config-session"
               /\ ACTIVE_COOKIE # StoredCookie

C16_Witness ==
    /\ prep.returned
    /\ forceLogin
    /\ storedSessionCookie = StoredCookie
    /\ COOKIE = OverrideCookie
    /\ sessLog[2] = Probe("config-cookie", OverrideCookie, "anonymous")
    /\ LoginPerformed
    /\ prep.source = "fresh-login"

\* C17: with an email/password pair configured, prepareSession does not
\* return without a verified override cookie or stored session unless it has
\* performed the login handshake.
C17_LoginWhenUnverified ==
    (prep.returned /\ HasCredentials
        /\ prep.source \notin {"config-cookie", "config-session"})
        => LoginPerformed

C19_PersistOnlyVerified ==
    (prep.returned /\ configFile.sessionCookie.origin = "login")
        => /\ configFile.sessionUpdated = "now"
           /\ LastProbeWith(configFile.sessionCookie) # 0
           /\ sessLog[LastProbeWith(configFile.sessionCookie)].outcome = "authenticated"

\* C20: main issues the catalog request, the first request of the course
\* phase, only after a profile probe of the run said authenticated; a run in
\* which no probe said so ends with process.exit(1) before that request.
C20_NoCatalogWithoutAuth ==
    /\ \A i \in 1..Len(sessLog) :
         (sessLog[i].ev = "catalog") => \E j \in 1..(i - 1) : AuthenticatedProbe(j)
    /\ (sessPc \in {"catalog", "course"})
            => (profileOk(coreData) /\ \E j \in 1..Len(sessLog) : AuthenticatedProbe(j))
    /\ (sessPc \in {"exited", "course"}
        /\ ~\E j \in 1..Len(sessLog) : AuthenticatedProbe(j))
            => (sessPc = "exited" /\ exitCode = 1)

C20_Witness ==
    /\ sessPc = "exited"
    /\ exitCode = 1
    /\ prep.source = "none"
    /\ ACTIVE_COOKIE = OverrideCookie
    /\ sessLog = << Install("config-cookie", OverrideCookie),
                    Probe("config-cookie", OverrideCookie, "failed"),
                    Probe("main", OverrideCookie, "anonymous") >>

\* ---- the history of a handshake
IsPost(i) == loginLog[i].step \in {"POST check-active-user", "POST login-authentication"}
\* the check-active-user response tells to go on with the password
SaysGetPass(reply) ==
    /\ ~reply.threw
    /\ reply.status >= 200 /\ reply.status <= 299
    /\ reply.json
    /\ reply.jstatus = "success"
    /\ reply.message = "get-pass"
InHandshake == sessPc \in {"loginPage", "fallback", "checkUser", "loginAuth"}

\* C21: the only request that carries the password is POST
\* login-authentication, and it directly follows a check-active-user response
\* with a 2xx status and a JSON body with status 'success' and message
\* 'get-pass'; a 2xx 'success' response with another message ends the
\* handshake with LOGIN_FLOW and is its last request.
C21_PasswordOnlyAfterGetPass ==
    /\ \A i \in 1..Len(loginLog) :
         /\ loginLog[i].password <=> (loginLog[i].step = "POST login-authentication")
         /\ loginLog[i].password
              => /\ i > 1
                 /\ loginLog[i - 1].step = "POST check-active-user"
                 /\ SaysGetPass(loginLog[i - 1].reply)
         /\ (/\ loginLog[i].step = "POST check-active-user"
             /\ ~loginLog[i].reply.threw
             /\ loginLog[i].reply.status >= 200 /\ loginLog[i].reply.status <= 299
             /\ loginLog[i].reply.json
             /\ loginLog[i].reply.jstatus = "success"
             /\ loginLog[i].reply.message # "get-pass")
              => /\ i = Len(loginLog)
                 /\ loginErr = "LOGIN_FLOW"
                 /\ ~InHandshake
    /\ (sessPc = "loginAuth")
         => SaysGetPass(loginLog[Len(loginLog)].reply)

C21_Witness ==
    /\ loginErr = "LOGIN_FLOW"
    /\ sessPc = "step4"
    /\ Len(loginLog) = 2
    /\ loginLog[2].step = "POST check-active-user"
    /\ loginLog[2].reply.status = 200
    /\ loginLog[2].reply.jstatus = "success"
    /\ loginLog[2].reply.message = "get-code"

\* C22: the token of the handshake is the csrftoken cookie of the login
\* page; the fallback probe is sent only when the page set none, and then the
\* token is the body field or the cookie of that probe; when neither gave one
\* the handshake ends with LOGIN_CSRF and has sent no POST; every POST carries
\* the token so obtained, the same in both.
C22_TokenSourceAndUse ==
    /\ \A i \in 1..Len(loginLog) :
         (loginLog[i].step = "GET core-data")
            => (i = 2 /\ ~loginLog[1].reply.threw /\ loginLog[1].reply.setCsrf = "")
    /\ \A i \in 1..Len(loginLog) :
         IsPost(i)
            => /\ loginLog[i].token # ""
               /\ loginLog[i].token = csrf
               /\ IF loginLog[1].reply.setCsrf # ""
                  THEN loginLog[i].token = loginLog[1].reply.setCsrf
                  ELSE /\ loginLog[2].step = "GET core-data"
                       /\ loginLog[i].token
                            \in ({loginLog[2].reply.bodyCsrf, loginLog[2].reply.setCsrf}
                                 \ {""})
    /\ \A i, j \in 1..Len(loginLog) :
         (IsPost(i) /\ IsPost(j)) => loginLog[i].token = loginLog[j].token
    /\ (loginErr = "LOGIN_CSRF")
            => /\ Len(loginLog) = 2
               /\ loginLog[1].reply.setCsrf = ""
               /\ loginLog[2].reply.bodyCsrf = ""
               /\ loginLog[2].reply.setCsrf = ""
    /\ (/\ Len(loginLog) >= 2
        /\ loginLog[2].step = "GET core-data"
        /\ ~loginLog[2].reply.threw
        /\ loginLog[2].reply.bodyCsrf = ""
        /\ loginLog[2].reply.setCsrf = "")
            => (loginErr = "LOGIN_CSRF" /\ Len(loginLog) = 2)

C22_Witness ==
    /\ Len(loginLog) = 4
    /\ loginLog[2].step = "GET core-data"
    /\ loginLog[2].reply.bodyCsrf = "t2"
    /\ loginLog[2].reply.setCsrf = "t4"
    /\ loginLog[3].token = "t2"
    /\ loginLog[3].reply.setCsrf = "t3"
    /\ loginLog[4].step = "POST login-authentication"
    /\ loginLog[4].token = "t2"
    /\ loginLog[4].cookie = "t3"

\* C23: a step of the handshake changes ACTIVE_COOKIE only when the
\* login-authentication response is a success after a check-active-user
\* success and the store holds a sessionid, and then to the pair of a
\* csrftoken and that sessionid; a step that fails the handshake leaves
\* ACTIVE_COOKIE as it was.
C23_CookieOnlyOnSuccess ==
    [][ InHandshake
          => /\ (ACTIVE_COOKIE' # ACTIVE_COOKIE)
                  => /\ sessPc = "loginAuth"
                     /\ sessPc' = "persist"
                     /\ Len(loginLog') >= 3
                     /\ SaysGetPass(loginLog'[Len(loginLog') - 1].reply)
                     /\ loginAuthVerdict(loginLog'[Len(loginLog')].reply) = "ok"
                     /\ store'.sessionid # ""
                     /\ ACTIVE_COOKIE'.origin = "login"
                     /\ ACTIVE_COOKIE'.sessionid = store'.sessionid
                     /\ ACTIVE_COOKIE'.csrftoken \in ({store'.csrftoken, csrf} \ {""})
             /\ (loginErr' # loginErr) => ACTIVE_COOKIE' = ACTIVE_COOKIE
             /\ (sessPc' = "persist") => ACTIVE_COOKIE' # ACTIVE_COOKIE
      ]_vars

C23_Witness ==
    /\ loginErr = "LOGIN_COOKIE"
    /\ sessPc = "step4"
    /\ forceLogin
    /\ ACTIVE_COOKIE = OverrideCookie
    /\ Len(loginLog) = 3
    /\ loginAuthVerdict(loginLog[3].reply) = "ok"
    /\ store.sessionid = ""

\* ---------------------------------------------------------------- C24
\* The units the download loop must look at, and those it counts as selected
AllUnits == 1..Len(units)
Selected == {i \in AllUnits : units[i] \in {"locked", "lecture"}}

\* main is past the await of a call that threw
Threw(at) == mainPc = at /\ mainPc' # at /\ returned = "threw"

\* A step of the download loop that handles a unit's outcome
HandlesOutcome ==
    /\ mainPc \in {"page", "video", "subtitle", "attachment"}
    /\ mainPc' # mainPc

\* C24: a failure of the lecture page, of the video transfer or of a subtitle
\* or attachment transfer never ends the run.  The step that handles it stays
\* in the loop and exits nothing; a failed video is counted in failedCount and
\* the loop goes to the next unit, a failed page is either counted so or the
\* unit is skipped, a failed subtitle or attachment is reported by logWarn and
\* its own loop goes on; the download loop always reaches the summary, and
\* when it has, it has looked at every unit and counted every selected one.
C24_FailureNeverAborts ==
    /\ [][HandlesOutcome =>
            /\ sessPc' = "course" /\ exitCode' = Undef
            /\ mainPc' \in {"loop", "video", "subtitles", "attachments"}
            /\ Threw("video") =>
                  /\ counts'.failedCount = counts.failedCount + 1
                  /\ mainPc' = "loop" /\ unitIndex' = unitIndex + 1
            /\ (mainPc = "page" /\ mainPc' # "video") =>
                  /\ mainPc' = "loop" /\ unitIndex' = unitIndex + 1
                  /\ counts'.failedCount + counts'.skippedCount
                       = counts.failedCount + counts.skippedCount + 1
            /\ Threw("subtitle") => "subtitle" \in warned' /\ mainPc' = "subtitles"
            /\ Threw("attachment") =>
                  "attachment" \in warned' /\ mainPc' = "attachments"]_vars
    /\ [](mainPc = "done" /\ ~isDryRun =>
            visited = AllUnits /\ counts.totalUnits = Cardinality(Selected))
    /\ ((sessPc = "course" /\ ~isDryRun) ~> (mainPc = "done"))

\* the summary is reached after a unit failed, a subtitle and an attachment
\* failed, and another unit was downloaded
C24_Witness ==
    /\ mainPc = "done"
    /\ ~isDryRun
    /\ counts.failedCount = 1
    /\ counts.downloadedCount = 1
    /\ warned = {"subtitle", "attachment"}

\* ---------------------------------------------------------------- C25
\* main is past its call of prepareSession (line 1195)
AfterPrepare ==
    sessPc \in {"returned", "mainProbe", "profile", "catalog", "course", "exited"}

\* C25: once prepareSession has returned, neither the active credential nor
\* the override cookie is written again and prepareSession is not entered
\* again; every request of the catalog and transfer phase carries the one
\* value commonHeaders reads from them, ACTIVE_COOKIE or else COOKIE; and a
\* transfer is only ever in flight after prepareSession has returned.
C25_CredentialFrozen ==
    /\ [][AfterPrepare =>
            /\ AfterPrepare'
            /\ ACTIVE_COOKIE' = ACTIVE_COOKIE
            /\ COOKIE' = COOKIE
            /\ prep' = prep]_vars
    /\ [](\A r \in mainRequests :
            /\ AfterPrepare
            /\ r.cookie = IF ACTIVE_COOKIE # Null THEN ACTIVE_COOKIE ELSE COOKIE)
    /\ [](inFlight # {} => AfterPrepare /\ prep.returned)

\* a download run that ended, all its requests sent with the stored session
C25_Witness ==
    /\ mainPc = "done"
    /\ ACTIVE_COOKIE = StoredCookie
    /\ COOKIE = Placeholder
    /\ {r.kind : r \in mainRequests} = {"catalog", "page", "transfer"}
    /\ counts.downloadedCount = 2

\* ---------------------------------------------------------------- C26
\* Every transfer the unit's log shows started has also ended
AllEnded(log) ==
    /\ Len(log) % 2 = 0
    /\ \A i \in 1..Len(log) :
          log[i] = IF i % 2 = 1 THEN Started(log[i][1]) ELSE Ended(log[i - 1][1])

\* a downloadToFile call starts in this step
Starts(kind) == \E t \in inFlight' \ inFlight : t.kind = kind

\* C26: at most one downloadToFile call is in flight at any time, so no file
\* is written by two transfers at once; a transfer starts only when every
\* earlier transfer of the unit has ended; the video transfer is the unit's
\* first, a subtitle transfer starts only after the video transfer has ended
\* and before any attachment transfer, and an attachment transfer only when
\* no subtitle link is left.
C26_TransfersSequential ==
    /\ [](Cardinality(inFlight) <= 1)
    /\ [][(inFlight' \ inFlight # {}) =>
            /\ inFlight = {}
            /\ AllEnded(unitLog)
            /\ \A t \in inFlight' : t.unit = unitIndex
            /\ Starts("video") => unitLog = << >>
            /\ Starts("subtitle") =>
                  /\ Len(unitLog) >= 2
                  /\ unitLog[2] = Ended("video")
                  /\ \A i \in 1..Len(unitLog) : unitLog[i][1] # "attachment"
            /\ Starts("attachment") =>
                  /\ Len(unitLog) >= 2
                  /\ unitLog[2] = Ended("video")
                  /\ subtitleLinks = 0]_vars

\* an attachment transfer in flight after the video and a subtitle transfer
\* of the same unit came and went
C26_Witness ==
    /\ inFlight = {Transfer(2, "attachment")}
    /\ unitLog = << Started("video"), Ended("video"), Started("subtitle"),
                    Ended("subtitle"), Started("attachment") >>

\* ---------------------------------------------------------------- C27
\* C27: in dry-run mode main never calls downloadToFile, creates neither the
\* output root nor a chapter directory, and the course phase issues, besides
\* the catalog request, lecture-page reads and size probes only; the download
\* counters stay untouched.
C27_DryRunWritesNothing ==
    isDryRun =>
      /\ inFlight = {}
      /\ dirs = {}
      /\ \A r \in mainRequests : r.kind \in {"catalog", "page", "probe"}
      /\ unitLog = << >>
      /\ counts = ZeroCounts

\* the preview printed its summary after a page read and three size probes
C27_Witness ==
    /\ isDryRun
    /\ mainPc = "done"
    /\ {r.kind : r \in mainRequests} = {"catalog", "page", "probe"}
    /\ dryCounts.totalLectures = 2
    /\ dryCounts.totalUnknownSize = 2

\* ---------------------------------------------------------------- C28
\* A full download finds a non-empty final file that the probe did not
\* confirm complete, and the probe found no range support
NoRangeSupport ==
    /\ sampleBytes = 0
    /\ final0 # << >>
    /\ remoteInfo.set
    /\ ~remoteInfo.acceptRanges

\* the attempt issues its body request; the response's body starts to be
\* written
IssuesBody == pc = "attempt" /\ pc' = "fetch"
OpensTmp == pc = "fetch" /\ pc' = "streaming"

\* What the claim says of the call: no Range header, the temporary file
\* written from offset 0, the final file untouched until the closing rename
RestartsFromZero ==
    /\ IssuesBody => request' = NoRange /\ resumeOffset' = 0 /\ finalFile' = final0
    /\ OpensTmp => tmpFile' = << >> /\ downloadedBytes' = 0
    /\ (finalFile' # finalFile) =>
          /\ finalFile = final0
          /\ finalFile' = tmpFile
          /\ result' = "downloaded"
          /\ finalizedBy' \in {"rename", "copy"}

\* C28 as stated: whenever the remote does not advertise range support and a
\* non-empty, unconfirmed final file exists, the attempt sends no Range
\* header, writes the temporary file from offset 0 and replaces the final file
\* only by the closing rename.
C28_Original == [][NoRangeSupport => RestartsFromZero]_vars

\* C28, amended: the same, when no temporary file exists as the call starts;
\* when one exists, the first attempt resumes from it with a Range header and
\* leaves the final file alone.
C28_NoResumeFromFinal ==
    [][NoRangeSupport =>
         /\ (tmp0 = << >>) => RestartsFromZero
         /\ (tmp0 # << >> /\ IssuesBody /\ attempt = 1) =>
               /\ request' = RangeFrom(Len(tmp0))
               /\ finalFile' = final0
               /\ tmpFile' = tmp0]_vars

\* a one-byte final file was replaced by a transfer of two attempts, neither
\* with a Range header
C28_Witness ==
    /\ NoRangeSupport
    /\ tmp0 = << >>
    /\ Len(final0) = 1
    /\ result = "downloaded"
    /\ Len(finalFile) = RemoteSize
    /\ Len(reqLog) = 2
    /\ \A i \in 1..Len(reqLog) : reqLog[i].range = NoRange /\ reqLog[i].offset = 0

\* ---------------------------------------------------------------- C29
\* min(30000, 700 * 2^(a-1)), written out: 700 * 2^6 is the first product
\* above 30000
ExpectedBackoff(a) == IF a >= 7 THEN 30000 ELSE 700 * 2 ^ (a - 1)

\* C29: for every attempt number a >= 1, toBackoffMs(a) is
\* min(30000, 700 * 2^(a-1)): 700 for the first attempt, twice the previous
\* delay or 30000 for the next, never less than the previous delay and never
\* more than 30000.
C29_BackoffFormula ==
    (fn = "toBackoffMs" /\ ret # << >>) =>
        /\ ret[1] = ExpectedBackoff(arg)
        /\ ret[2] = ExpectedBackoff(arg + 1)
        /\ (arg = 1) => ret[1] = 700
        /\ ret[2] = IF 2 * ret[1] <= 30000 THEN 2 * ret[1] ELSE 30000
        /\ ret[1] <= ret[2]
        /\ ret[2] <= 30000

\* the delay of attempt 6 is below the ceiling, that of attempt 7 is held at it
C29_Witness == fn = "toBackoffMs" /\ arg = 6 /\ ret = << 22400, 30000 >>

\* ---------------------------------------------------------------- C30
\* C30: for every integer status code, isRetriableStatus is true exactly for
\* 408, 425, 429 and the codes from 500 to 599.
C30_RetriableStatusSet ==
    (fn = "isRetriableStatus" /\ ret # << >>) =>
        (ret[1] <=> (arg \in {408, 425, 429} \/ arg \in 500..599))

\* 425 was classified retriable
C30_Witness == fn = "isRetriableStatus" /\ arg = 425 /\ ret = << TRUE >>

\* ---------------------------------------------------------------- C38
\* The units the download loop is done with
Processed == {i \in Selected : i < unitIndex}
Accounted == counts.downloadedCount + counts.skippedCount + counts.failedCount

TotalBySample == ret[1] = arg.sampleBytes
TotalByRange == ret[1] = arg.contentRange.n
TotalByResume == ret[1] = arg.resumeOffset + arg.contentLength.n
TotalByLength == ret[1] = arg.contentLength.n

\* C33 as stated: the expected total is the sample cap when sampling; else
\* the total declared in Content-Range; else resumeOffset + Content-Length
\* when resuming; else the Content-Length; else unknown; the byte counter
\* starts at resumeOffset.
C33_Original ==
    (fn = "expectedTotal" /\ ret # << >>) =>
        /\ ret[2] = arg.resumeOffset
        /\ IF arg.sampleBytes > 0 THEN TotalBySample
           ELSE IF arg.contentRange.kind = "total" THEN TotalByRange
           ELSE IF arg.contentLength.kind = "number" /\ arg.resumeOffset > 0
                THEN TotalByResume
           ELSE IF arg.contentLength.kind = "number" THEN TotalByLength
           ELSE ret[1] \in {Undef, NaN}

\* C33, amended: the same, but resumeOffset is added only to a Content-Length
\* other than 0; a Content-Length of 0 is taken as it is, resuming or not.  An
\* absent Content-Length leaves the total undefined, one that is no number
\* makes it NaN.
C33_ExpectedTotalOrder ==
    (fn = "expectedTotal" /\ ret # << >>) =>
        /\ ret[2] = arg.resumeOffset
        /\ IF arg.sampleBytes > 0 THEN TotalBySample
           ELSE IF arg.contentRange.kind = "total" THEN TotalByRange
           ELSE IF arg.contentLength.kind = "number" /\ arg.contentLength.n # 0
                   /\ arg.resumeOffset > 0
                THEN TotalByResume
           ELSE IF arg.contentLength.kind = "number" THEN TotalByLength
           ELSE IF arg.contentLength.kind = "text" THEN ret[1] = NaN
           ELSE ret[1] = Undef

\* a resumed attempt whose response declares no total: 2 bytes on disk and a
\* Content-Length of 1 give an expected total of 3
C33_Witness ==
    /\ fn = "expectedTotal"
    /\ arg = [sampleBytes |-> 0, resumeOffset |-> 2,
              contentLength |-> Header("number", 1),
              contentRange |-> Header("star", Undef)]
    /\ ret = << 3, 2 >>

\* ---------------------------------------------------------------- C37
SizeFrom(h) == IF h.kind \in {"number", "total"} THEN h.n
               ELSE IF h.kind = "text" THEN NaN ELSE Undef
ProbeResult == ret[Len(ret)]
ProbeReturned == fn = "getRemoteSizeAndRanges" /\ ret # << >> /\ ret # << "HEAD" >>

\* C37: getRemoteSizeAndRanges always returns a {size, acceptRanges} result;
\* the ranged GET is issued only when the HEAD threw or was not 2xx; a 2xx
\* HEAD decides alone (size from Content-Length or unknown, acceptRanges
\* from Accept-Ranges); a 206 fallback gives acceptRanges = true with the
\* size from Content-Range; everything else gives unknown and false.
C37_ProbeNeverThrows ==
    /\ [](fn = "getRemoteSizeAndRanges" => <>ProbeReturned)
    /\ [](ProbeReturned =>
            /\ ProbeResult \in [set : {TRUE}, size : {Undef, NaN} \cup 0..(RemoteSize + 1),
                                acceptRanges : BOOLEAN]
            /\ ret[1] = "HEAD"
            /\ (Len(ret) = 3) = ~(arg.head.kind = "response"
                                   /\ arg.head.status \in 200..299)
            /\ Len(ret) = 3 => ret[2] = "GET"
            /\ IF Len(ret) = 2
               THEN /\ ProbeResult.size = SizeFrom(arg.head.contentLength)
                    /\ ProbeResult.acceptRanges
                         = (arg.head.acceptRanges \in {"bytes", "Bytes"})
               ELSE IF arg.get.kind = "response" /\ arg.get.status = 206
               THEN /\ ProbeResult.size = SizeFrom(arg.get.contentRange)
                    /\ ProbeResult.acceptRanges
               ELSE /\ ProbeResult.size = Undef
                    /\ ~ProbeResult.acceptRanges)

\* the HEAD is refused, the ranged GET answers 206 with the total
C37_Witness ==
    /\ fn = "getRemoteSizeAndRanges"
    /\ arg.head.kind = "response" /\ arg.head.status = 403
    /\ arg.get.kind = "response" /\ arg.get.status = 206
    /\ arg.get.contentRange = Header("total", RemoteSize)
    /\ ret = << "HEAD", "GET", Info(RemoteSize, TRUE) >>

\* ---------------------------------------------------------------- C35
\* the bytes of f are the leading bytes of g
StartsWith(g, f) == Len(g) >= Len(f) /\ \A i \in 1..Len(f) : g[i] = f[i]

\* C35: when a non-sample call that found a non-empty final file ends by
\* propagating an error, the bytes that file held are still on disk, at the
\* final path or at the temporary path.
C35_FailureKeepsFinalData ==
    (sampleBytes = 0 /\ final0 # << >> /\ result = "threw") =>
        (StartsWith(finalFile, final0) \/ StartsWith(tmpFile, final0))

\* ---------------------------------------------------------------- C36
PrepSources == {"config-cookie", "config-session", "fresh-login", "none"}

\* C36: prepareSession never throws: it always returns, whatever the probes,
\* the handshake and the config write do, and main is never past it or
\* exited without its return; the result is {core, source} with source one
\* of 'config-cookie', 'config-session', 'fresh-login', 'none'; core is
\* non-null exactly when source is not 'none', and a non-null core is a
\* probe response with is_authenticated = true that was obtained with the
\* credential active at the return.
C36_PrepareSessionTotal ==
    /\ <>prep.returned
    /\ [](AfterPrepare <=> prep.returned)
    /\ [](~prep.returned => exitCode = Undef)
    /\ [](prep.returned =>
            /\ prep.source \in PrepSources
            /\ prep.core.null <=> prep.source = "none"
            /\ ~prep.core.null =>
                 /\ prep.core.is_authenticated
                 /\ ACTIVE_COOKIE # Null
                 /\ prep.core.cookie = ACTIVE_COOKIE
                 /\ \E i \in 1..Len(sessLog) :
                      sessLog[i] = Probe(prep.source, ACTIVE_COOKIE, "authenticated"))

\* the override cookie was refused, the handshake succeeded, the config file
\* could not be written, and the fresh cookie was verified
C36_Witness ==
    /\ prep.returned
    /\ prep.source = "fresh-login"
    /\ ~prep.core.null
    /\ \E i \in 1..Len(sessLog) : sessLog[i].ev = "probe" /\ sessLog[i].outcome = "failed"
    /\ \E i \in 1..Len(sessLog) : sessLog[i].ev = "write" /\ sessLog[i].outcome = "failed"

\* ---------------------------------------------------------------- C32
StepRank(step) ==
    CASE step = "GET /accounts/login/" -> 1
      [] step = "GET core-data" -> 2
      [] step = "POST check-active-user" -> 3
      [] step = "POST login-authentication" -> 4

\* C32: the handshake issues its steps in the fixed order GET login page,
\* optional fallback probe, POST check-active-user, POST
\* login-authentication, each at most once; once a step has failed no later
\* step is issued and no earlier one repeated; prepareSession runs the
\* handshake at most once per run.
C32_HandshakeOrder ==
    /\ [](\A i, j \in 1..Len(loginLog) :
            i < j => StepRank(loginLog[i].step) < StepRank(loginLog[j].step))
    /\ [](loginLog # << >> => loginLog[1].step = "GET /accounts/login/")
    /\ [](\A i \in 1..Len(loginLog) :
            /\ StepRank(loginLog[i].step) = 4
                    => (i > 1 /\ StepRank(loginLog[i - 1].step) = 3)
            /\ loginLog[i].reply.threw => i = Len(loginLog))
    /\ [][(loginErr # "") => (loginLog' = loginLog /\ ~InHandshake')]_vars
    /\ [][(loginLog' # loginLog) => InHandshake]_vars
    /\ [][InHandshake' => (InHandshake \/ (sessPc = "step3" /\ loginLog = << >>))]_vars

\* all four steps were issued, the last one was refused, main went on
C32_Witness ==
    /\ Len(loginLog) = 4
    /\ loginLog[2].step = "GET core-data"
    /\ loginLog[4].step = "POST login-authentication"
    /\ loginErr # ""
    /\ prep.returned
    /\ prep.source = "none"

\* ---------------------------------------------------------------- C34
\* How a Set-Cookie line reads: the cookie pair before the first ';', its
\* name and value without the blanks around them; a line without '=' in
\* that part, or with nothing before it, sets no cookie.
Reading(line) ==
    CASE line = << "a", "=", "1" >> -> [kept |-> TRUE, name |-> << "a" >>, value |-> << "1" >>]
      [] line = << "a", "=", "2", ";", "x", "=", "9" >>
            -> [kept |-> TRUE, name |-> << "a" >>, value |-> << "2" >>]
      [] line = << " ", "a", " ", "=", " ", "3", " ", ";", "p" >>
            -> [kept |-> TRUE, name |-> << "a" >>, value |-> << "3" >>]
      [] line = << "a", "=" >> -> [kept |-> TRUE, name |-> << "a" >>, value |-> << >>]
      [] line = << "a", "=", "b", "=", "1" >>
            -> [kept |-> TRUE, name |-> << "a" >>, value |-> << "b", "=", "1" >>]
      [] line = << "b", "=", "1" >> -> [kept |-> TRUE, name |-> << "b" >>, value |-> << "1" >>]
      [] OTHER -> [kept |-> FALSE, name |-> << >>, value |-> << >>]

CookieNames == {<< "a" >>, << "b" >>, << "x" >>, << >>}
Sets(i, name) == Reading(arg[i]).kept /\ Reading(arg[i]).name = name
LastSet(name) == CHOOSE i \in 1..Len(arg) : Sets(i, name) /\ \A j \in (i + 1)..Len(arg) : ~Sets(j, name)
FirstSet(name) == CHOOSE i \in 1..Len(arg) : Sets(i, name) /\ \A j \in 1..(i - 1) : ~Sets(j, name)
IsSet(name) == \E i \in 1..Len(arg) : Sets(i, name)

\* the pairs 'name=value' of the names set so far, in the order in which the
\* names were first set, each with the value it was last set to
RECURSIVE PairsFrom(_)
PairsFrom(i) ==
    IF i > Len(arg) THEN << >>
    ELSE IF Reading(arg[i]).kept /\ FirstSet(Reading(arg[i]).name) = i
    THEN << Reading(arg[i]).name \o << "=" >> \o Reading(arg[LastSet(Reading(arg[i]).name)]).value >>
         \o PairsFrom(i + 1)
    ELSE PairsFrom(i + 1)

\* C34: the store holds at most one value per name; get(name) is the value
\* of the last line given with that name (what follows the first ';' is
\* ignored, lines without '=' or with an empty name are ignored), undefined
\* for a name no line set; headerString() lists each name once as
\* 'name=value', joined by '; ', in the order of first insertion.
C34_CookieStore ==
    (fn = "SimpleCookieStore") =>
        /\ \A i, j \in 1..Len(ret) : ret[i].k = ret[j].k => i = j
        /\ \A name \in CookieNames :
             get(ret, name) = IF IsSet(name)
                              THEN [defined |-> TRUE,
                                    value |-> Reading(arg[LastSet(name)]).value]
                              ELSE [defined |-> FALSE, value |-> << >>]
        /\ headerString(ret) = join(PairsFrom(1), << ";", " " >>)

\* 'b=1', then ' a = 3 ;p', then 'a=2;x=9': the header reads 'b=1; a=2'
C34_Witness ==
    /\ fn = "SimpleCookieStore"
    /\ arg = << << "b", "=", "1" >>,
                << " ", "a", " ", "=", " ", "3", " ", ";", "p" >>,
                << "a", "=", "2", ";", "x", "=", "9" >> >>
    /\ headerString(ret) = << "b", "=", "1", ";", " ", "a", "=", "2" >>
    /\ get(ret, << "a" >>).value = << "2" >>

\* ---------------------------------------------------------------- C31
\* the transient failures of the transport: connection reset or refused,
\* broken pipe, name resolution failed, host unreachable
TransientCodes == {"ECONNRESET", "ECONNREFUSED", "EPIPE", "ENOTFOUND", "EHOSTUNREACH"}
TransientFailure(o) ==
    o.kind = "error" /\ "code" \in DOMAIN o.err /\ o.err.code \in TransientCodes

\* C31: a request sent through rawRequestWithRetry that fails with a
\* transient error of the https transport is retried after the backoff
\* while attempts remain: the call throws such an error only from its last
\* attempt.
C31_TransportFailureRetried ==
    (rawPc = "threw" /\ rawLog # << >> /\ TransientFailure(rawLog[Len(rawLog)]))
        => Len(rawLog) = retryAttempts

\* ---------------------------------------------------------------- C39
RawEnded == rawPc \in {"returned", "threw"}

\* C39: given the same sequence of per-attempt outcomes (retriable status,
\* other status, retriable error, other error), fetchWithRetry with retries
\* = RUNTIME_CONFIG.retryAttempts and rawRequestWithRetry make the same
\* number of attempts, wait the same toBackoffMs delays and end with the
\* same kind of result (a response returned or an error thrown).
C39_SameRetryPolicy ==
    /\ rawPc = "inflight" => rawAttempt <= Len(fetchLog)
    /\ rawPc = "sleep" => rawAttempt < Len(fetchLog)
    /\ \A i \in 1..Len(rawLog) :
         /\ i <= Len(fetchLog)
         /\ OutcomeKind(rawLog[i]) = OutcomeKind(fetchLog[i])
    /\ \A i \in 1..Len(rawBackoffLog) :
         /\ i <= Len(fetchBackoffLog)
         /\ rawBackoffLog[i] = fetchBackoffLog[i]
         /\ rawBackoffLog[i] = toBackoffMs(i)
    /\ RawEnded =>
         /\ Len(rawLog) = Len(fetchLog)
         /\ rawBackoffLog = fetchBackoffLog
         /\ rawPc = fetchPc
         /\ rawResult.kind = fetchResult.kind
         /\ rawResult.kind = "response" =>
                isRetriableStatus(rawResult.status) = isRetriableStatus(fetchResult.status)

\* both calls waited 700 ms after a timeout and threw the error of their
\* second attempt, which neither classifies as retriable
C39_Witness ==
    /\ retries = 2
    /\ fetchPc = "threw"
    /\ rawPc = "threw"
    /\ fetchLog[1].err = AbortError
    /\ rawLog[1].err = RequestTimeout
    /\ fetchLog[2].err = FetchFailed("UND_ERR_SOCKET")
    /\ rawLog[2].err = SystemError("ECONNRESET")
    /\ rawBackoffLog = << 700 >>
    /\ fetchBackoffLog = << 700 >>

====
